---- MODULE Spec2Model ----
(***************************************************************************)
(* Blood-supply-chain ledger: the status state machines of                 *)
(*   - HealthChainContract  (src/contracts/src/lib.rs)                     *)
(*   - InventoryContract    (src/lifebank-soroban/contracts/inventory)     *)
(* Every handler is one action.  A storage write is modelled where the     *)
(* handler issues it: a handler that writes and then returns an error      *)
(* leaves its writes in the store (the contract code itself never undoes   *)
(* a write).  `last` is the result of the most recent invocation that      *)
(* wrote to the store: Ok, or the handler and the error it returned after  *)
(* writing.  An invocation that returns an error before its first write is *)
(* a stuttering step.  Events are not modelled.                            *)
(***************************************************************************)
EXTENDS Integers, Sequences, FiniteSets, TLC

VARIABLES admin, banks, hospitals, units, history, requests, request_keys,
          next_id, next_request_id, now, last,
          inv_admin, inv_units, inv_history, inv_change_count,
          inv_unit_counter, inv_history_counter,
          inv_type_index, inv_bank_index, inv_status_index, inv_donor_index,
          rq_admin, rq_authorized, rq_counter, rq_requests,
          rq_hospital_index, rq_blood_type_index, rq_status_index, rq_urgency_index,
          q_list, q_limit, q_offset, q_result

hc_vars == <<admin, banks, hospitals, units, history, requests, request_keys,
             next_id, next_request_id>>
inv_vars == <<inv_admin, inv_units, inv_history, inv_change_count,
              inv_unit_counter, inv_history_counter,
              inv_type_index, inv_bank_index, inv_status_index, inv_donor_index>>
rq_vars == <<rq_admin, rq_authorized, rq_counter, rq_requests,
             rq_hospital_index, rq_blood_type_index, rq_status_index, rq_urgency_index>>
(* One pagination call: its arguments and, once made, its result. *)
q_vars == <<q_list, q_limit, q_offset, q_result>>
vars == <<hc_vars, inv_vars, rq_vars, q_vars, now, last>>

----------------------------------------------------------------------------
(* Bounds of the model *)
MaxUnits == 1
MaxRequests == 1
MaxDays == 1
MaxHist == 3
MaxBatch == 2

(* Program constants *)
MIN_QUANTITY_ML == 50
MAX_QUANTITY_ML == 500
MIN_SHELF_LIFE_DAYS == 1
MAX_SHELF_LIFE_DAYS == 42
MIN_REQUEST_ML == 50
MAX_REQUEST_ML == 5000
MAX_BATCH_SIZE == 100
SECONDS_PER_DAY == 86400

----------------------------------------------------------------------------
(* Identities.  CONTRACT is env.current_contract_address(). *)
CONTRACT == "contract"
Address == {"admin", "bank", "hospA", "hospB", CONTRACT}
(* The identities that can authorise an invocation (require_auth). *)
Signers == Address \ {CONTRACT}
AdminCandidates == {"admin"}
BankCandidates == {"bank", CONTRACT}
HospitalCandidates == {"hospA", "hospB"}

None == <<>>
Some(v) == <<v>>

BloodType == {"OPositive"}
BloodStatus == {"Available", "Reserved", "InTransit", "Delivered", "Expired", "Discarded"}
RequestStatus == {"Pending", "Approved", "InProgress", "Fulfilled", "Cancelled", "Rejected"}
UrgencyLevel == {"Urgent"}

UnitIds == 1..(MaxUnits + 1)
RequestIds == 1..(MaxRequests + 1)

(* Argument lists of the batch operations: the short lists over the ids,    *)
(* and one list longer than MAX_BATCH_SIZE.                                 *)
ShortLists == UNION {[1..n -> UnitIds] : n \in 0..MaxBatch}
OversizedList == [i \in 1..(MAX_BATCH_SIZE + 1) |-> 1]
UnitIdLists == ShortLists \cup {OversizedList}

Call(op, res) == IF res = "Ok" THEN [op |-> "any", res |-> "Ok"]
                 ELSE [op |-> op, res |-> res]

HistBounded(h) == \A u \in DOMAIN h : Len(h[u]) <= MaxHist

----------------------------------------------------------------------------
(* HealthChainContract *)

InitHC ==
    /\ admin = None
    /\ banks = {}
    /\ hospitals = {}
    /\ units = <<>>
    /\ history = [u \in UnitIds |-> <<>>]
    /\ requests = <<>>
    /\ request_keys = <<>>
    /\ next_id = 1
    /\ next_request_id = 1
    /\ now = 0
    /\ last = Call("deploy", "Ok")

InitInv ==
    /\ inv_admin = None
    /\ inv_units = <<>>
    /\ inv_history = [u \in UnitIds |-> <<>>]
    /\ inv_change_count = [u \in UnitIds |-> 0]
    /\ inv_unit_counter = 0
    /\ inv_history_counter = 0
    /\ inv_type_index = <<>>
    /\ inv_bank_index = <<>>
    /\ inv_status_index = <<>>
    /\ inv_donor_index = <<>>

InitRq ==
    /\ rq_admin = None
    /\ rq_authorized = {}
    /\ rq_counter = 0
    /\ rq_requests = <<>>
    /\ rq_hospital_index = <<>>
    /\ rq_blood_type_index = <<>>
    /\ rq_status_index = <<>>
    /\ rq_urgency_index = <<>>

InitContracts == InitHC /\ InitInv /\ InitRq

Init ==
    /\ InitContracts
    /\ q_list = <<>>
    /\ q_limit = None
    /\ q_offset = None
    /\ q_result = None

is_blood_bank(bank_id) == bank_id \in banks
is_hospital(hospital_id) == hospital_id \in hospitals

(* Map::set *)
MapSet(m, k, v) == [x \in (DOMAIN m) \cup {k} |-> IF x = k THEN v ELSE m[x]]

(* record_status_change: append one StatusChangeEvent to the unit's history *)
record_status_change_at_front(h, unit_id, old_status, new_status, actor, t) ==
    [h EXCEPT ![unit_id] = <<[blood_unit_id |-> unit_id,
                              old_status |-> old_status,
                              new_status |-> new_status,
                              actor |-> actor,
                              timestamp |-> t]>> \o @]

record_status_change(h, unit_id, old_status, new_status, actor, t) ==
    [h EXCEPT ![unit_id] = Append(@, [blood_unit_id |-> unit_id,
                                      old_status |-> old_status,
                                      new_status |-> new_status,
                                      actor |-> actor,
                                      timestamp |-> t])]

(* The host ledger clock advances between invocations. *)
Tick ==
    /\ now < MaxDays * SECONDS_PER_DAY
    /\ now' = now + SECONDS_PER_DAY
    /\ UNCHANGED <<hc_vars, inv_vars, rq_vars, q_vars, last>>

initialize(signer, a) ==
    /\ signer = a
    /\ admin' = Some(a)
    /\ last' = Call("initialize", "Ok")
    /\ UNCHANGED <<banks, hospitals, units, history, requests, request_keys,
                   next_id, next_request_id, now, inv_vars,
                   rq_vars, q_vars>>

register_blood_bank(signer, bank_id) ==
    /\ IF admin = None
         THEN UNCHANGED <<banks, last>>
         ELSE /\ signer = admin[1]
              /\ banks' = banks \cup {bank_id}
              /\ last' = Call("register_blood_bank", "Ok")
    /\ UNCHANGED <<admin, hospitals, units, history, requests, request_keys,
                   next_id, next_request_id, now, inv_vars,
                   rq_vars, q_vars>>

register_hospital(signer, hospital_id) ==
    /\ IF admin = None
         THEN UNCHANGED <<hospitals, last>>
         ELSE /\ signer = admin[1]
              /\ hospitals' = hospitals \cup {hospital_id}
              /\ last' = Call("register_hospital", "Ok")
    /\ UNCHANGED <<admin, banks, units, history, requests, request_keys,
                   next_id, next_request_id, now, inv_vars,
                   rq_vars, q_vars>>

NewUnit(id, blood_type, quantity, expiration, bank_id, t) ==
    [id |-> id, blood_type |-> blood_type, quantity |-> quantity,
     expiration_date |-> expiration, bank_id |-> bank_id,
     registration_timestamp |-> t, status |-> "Available",
     recipient_hospital |-> None, allocation_timestamp |-> None,
     transfer_timestamp |-> None, delivery_timestamp |-> None]

register_blood_result_rejecting_minimum_shelf_life(bank_id, quantity_ml, expiration_timestamp) ==
    IF ~is_blood_bank(bank_id) THEN "Unauthorized"
    ELSE IF ~(MIN_QUANTITY_ML <= quantity_ml /\ quantity_ml <= MAX_QUANTITY_ML)
      THEN "InvalidQuantity"
    ELSE IF expiration_timestamp <= now
            \/ expiration_timestamp <= now + MIN_SHELF_LIFE_DAYS * SECONDS_PER_DAY
      THEN "InvalidExpiration"
    ELSE IF expiration_timestamp > now + MAX_SHELF_LIFE_DAYS * SECONDS_PER_DAY
      THEN "InvalidExpiration"
    ELSE "Ok"

register_blood_result(bank_id, quantity_ml, expiration_timestamp) ==
    IF ~is_blood_bank(bank_id) THEN "Unauthorized"
    ELSE IF ~(MIN_QUANTITY_ML <= quantity_ml /\ quantity_ml <= MAX_QUANTITY_ML)
      THEN "InvalidQuantity"
    ELSE IF expiration_timestamp <= now
            \/ expiration_timestamp < now + MIN_SHELF_LIFE_DAYS * SECONDS_PER_DAY
      THEN "InvalidExpiration"
    ELSE IF expiration_timestamp > now + MAX_SHELF_LIFE_DAYS * SECONDS_PER_DAY
      THEN "InvalidExpiration"
    ELSE "Ok"

register_blood_consuming_id_on_failure(signer, bank_id, blood_type, quantity_ml, expiration_timestamp) ==
    /\ signer = bank_id
    /\ next_id <= MaxUnits
    /\ next_id' = next_id + 1
    /\ IF register_blood_result(bank_id, quantity_ml, expiration_timestamp) = "Ok"
         THEN /\ units' = MapSet(units, next_id,
                                 NewUnit(next_id, blood_type, quantity_ml,
                                         expiration_timestamp, bank_id, now))
              /\ last' = Call("register_blood", "Ok")
         ELSE /\ units' = units
              /\ last' = Call("register_blood",
                              register_blood_result(bank_id, quantity_ml, expiration_timestamp))
    /\ UNCHANGED <<admin, banks, hospitals, history, requests, request_keys,
                   next_request_id, now, inv_vars,
                   rq_vars, q_vars>>

register_blood(signer, bank_id, blood_type, quantity_ml, expiration_timestamp) ==
    /\ signer = bank_id
    /\ IF register_blood_result(bank_id, quantity_ml, expiration_timestamp) = "Ok"
         THEN /\ next_id <= MaxUnits
              /\ next_id' = next_id + 1
              /\ units' = MapSet(units, next_id,
                                 NewUnit(next_id, blood_type, quantity_ml,
                                         expiration_timestamp, bank_id, now))
              /\ last' = Call("register_blood", "Ok")
         ELSE UNCHANGED <<units, next_id, last>>
    /\ UNCHANGED <<admin, banks, hospitals, history, requests, request_keys,
                   next_request_id, now, inv_vars,
                   rq_vars, q_vars>>

(* Legacy entry point: no authentication, no validation; shares NEXT_ID. *)
add_blood_unit(blood_type, quantity, expiration_date) ==
    /\ next_id <= MaxUnits
    /\ next_id' = next_id + 1
    /\ units' = MapSet(units, next_id,
                       NewUnit(next_id, blood_type, quantity, expiration_date,
                               CONTRACT, now))
    /\ last' = Call("add_blood_unit", "Ok")
    /\ UNCHANGED <<admin, banks, hospitals, history, requests, request_keys,
                   next_request_id, now, inv_vars,
                   rq_vars, q_vars>>

(* allocate_blood's checks as they would be without the status check of    *)
(* lib.rs 421-424: a unit that is already Reserved can be allocated again.  *)
allocate_blood_result_ignoring_status(bank_id, unit_id, hospital) ==
    IF ~is_blood_bank(bank_id) THEN "Unauthorized"
    ELSE IF ~is_hospital(hospital) THEN "UnauthorizedHospital"
    ELSE IF unit_id \notin DOMAIN units THEN "UnitNotFound"
    ELSE IF units[unit_id].expiration_date <= now THEN "UnitExpired"
    ELSE "Ok"

allocate_blood_result(bank_id, unit_id, hospital) ==
    IF ~is_blood_bank(bank_id) THEN "Unauthorized"
    ELSE IF ~is_hospital(hospital) THEN "UnauthorizedHospital"
    ELSE IF unit_id \notin DOMAIN units THEN "UnitNotFound"
    ELSE IF units[unit_id].expiration_date <= now THEN "UnitExpired"
    ELSE IF units[unit_id].status # "Available" THEN "InvalidStatus"
    ELSE "Ok"

allocate_blood(signer, bank_id, unit_id, hospital) ==
    /\ signer = bank_id
    /\ IF allocate_blood_result(bank_id, unit_id, hospital) = "Ok"
         THEN /\ units' = [units EXCEPT ![unit_id].status = "Reserved",
                                        ![unit_id].recipient_hospital = Some(hospital),
                                        ![unit_id].allocation_timestamp = Some(now)]
              /\ history' = record_status_change(history, unit_id,
                                units[unit_id].status, "Reserved", bank_id, now)
              /\ HistBounded(history')
              /\ last' = Call("allocate_blood", "Ok")
         ELSE UNCHANGED <<units, history, last>>
    /\ UNCHANGED <<admin, banks, hospitals, requests, request_keys,
                   next_id, next_request_id, now, inv_vars,
                   rq_vars, q_vars>>

(* The loop of batch_allocate_blood over unit_ids[i..]: `us` is the handler's *)
(* local copy of the unit map, `hs` the stored histories, which             *)
(* record_status_change writes element by element.                          *)
RECURSIVE batch_allocate_loop(_, _, _, _, _, _)
batch_allocate_loop(unit_ids, i, us, hs, bank_id, hospital) ==
    IF i > Len(unit_ids) THEN [res |-> "Ok", units |-> us, history |-> hs]
    ELSE LET unit_id == unit_ids[i] IN
         IF unit_id \notin DOMAIN us
           THEN [res |-> "UnitNotFound", units |-> us, history |-> hs]
         ELSE IF us[unit_id].expiration_date <= now
           THEN [res |-> "UnitExpired", units |-> us, history |-> hs]
         ELSE IF us[unit_id].status # "Available"
           THEN [res |-> "InvalidStatus", units |-> us, history |-> hs]
         ELSE batch_allocate_loop(unit_ids, i + 1,
                  [us EXCEPT ![unit_id].status = "Reserved",
                             ![unit_id].recipient_hospital = Some(hospital),
                             ![unit_id].allocation_timestamp = Some(now)],
                  record_status_change(hs, unit_id, us[unit_id].status,
                                       "Reserved", bank_id, now),
                  bank_id, hospital)

(* Result of batch_allocate_blood: the error of the checks that precede the *)
(* loop, else the loop's result with its local unit map and the histories.  *)
batch_allocate_blood_result(bank_id, unit_ids, hospital) ==
    IF Len(unit_ids) > MAX_BATCH_SIZE
      THEN [res |-> "BatchSizeExceeded", units |-> units, history |-> history]
    ELSE IF ~is_blood_bank(bank_id)
      THEN [res |-> "Unauthorized", units |-> units, history |-> history]
    ELSE IF ~is_hospital(hospital)
      THEN [res |-> "UnauthorizedHospital", units |-> units, history |-> history]
    ELSE batch_allocate_loop(unit_ids, 1, units, history, bank_id, hospital)

(* batch_allocate_blood as it would be with the unit map saved inside the    *)
(* loop: the units processed before a failing element stay Reserved.        *)
batch_allocate_blood_saving_in_loop(signer, bank_id, unit_ids, hospital) ==
    /\ signer = bank_id
    /\ LET r == batch_allocate_blood_result(bank_id, unit_ids, hospital) IN
       /\ history' = r.history
       /\ HistBounded(history')
       /\ units' = r.units
       /\ last' = IF r.res = "Ok" \/ r.history # history
                    THEN Call("batch_allocate_blood", r.res) ELSE last
    /\ UNCHANGED <<admin, banks, hospitals, requests, request_keys,
                   next_id, next_request_id, now, inv_vars,
                   rq_vars, q_vars>>

batch_allocate_blood(signer, bank_id, unit_ids, hospital) ==
    /\ signer = bank_id
    /\ LET r == batch_allocate_blood_result(bank_id, unit_ids, hospital) IN
       /\ history' = r.history
       /\ HistBounded(history')
       /\ units' = IF r.res = "Ok" THEN r.units ELSE units
       /\ last' = IF r.res = "Ok" \/ r.history # history
                    THEN Call("batch_allocate_blood", r.res) ELSE last
    /\ UNCHANGED <<admin, banks, hospitals, requests, request_keys,
                   next_id, next_request_id, now, inv_vars,
                   rq_vars, q_vars>>

cancel_allocation_result(bank_id, unit_id) ==
    IF ~is_blood_bank(bank_id) THEN "Unauthorized"
    ELSE IF unit_id \notin DOMAIN units THEN "UnitNotFound"
    ELSE IF units[unit_id].status # "Reserved" THEN "InvalidStatus"
    ELSE "Ok"

cancel_allocation_keeping_recipient(signer, bank_id, unit_id) ==
    /\ signer = bank_id
    /\ IF cancel_allocation_result(bank_id, unit_id) = "Ok"
         THEN /\ units' = [units EXCEPT ![unit_id].status = "Available",
                                        ![unit_id].allocation_timestamp = None]
              /\ history' = record_status_change(history, unit_id,
                                units[unit_id].status, "Available", bank_id, now)
              /\ HistBounded(history')
              /\ last' = Call("cancel_allocation", "Ok")
         ELSE UNCHANGED <<units, history, last>>
    /\ UNCHANGED <<admin, banks, hospitals, requests, request_keys,
                   next_id, next_request_id, now, inv_vars,
                   rq_vars, q_vars>>

cancel_allocation(signer, bank_id, unit_id) ==
    /\ signer = bank_id
    /\ IF cancel_allocation_result(bank_id, unit_id) = "Ok"
         THEN /\ units' = [units EXCEPT ![unit_id].status = "Available",
                                        ![unit_id].recipient_hospital = None,
                                        ![unit_id].allocation_timestamp = None]
              /\ history' = record_status_change(history, unit_id,
                                units[unit_id].status, "Available", bank_id, now)
              /\ HistBounded(history')
              /\ last' = Call("cancel_allocation", "Ok")
         ELSE UNCHANGED <<units, history, last>>
    /\ UNCHANGED <<admin, banks, hospitals, requests, request_keys,
                   next_id, next_request_id, now, inv_vars,
                   rq_vars, q_vars>>

initiate_transfer_result(bank_id, unit_id) ==
    IF ~is_blood_bank(bank_id) THEN "Unauthorized"
    ELSE IF unit_id \notin DOMAIN units THEN "UnitNotFound"
    ELSE IF units[unit_id].expiration_date <= now THEN "UnitExpired"
    ELSE IF units[unit_id].status # "Reserved" THEN "InvalidStatus"
    ELSE "Ok"

initiate_transfer_without_timestamp(signer, bank_id, unit_id) ==
    /\ signer = bank_id
    /\ IF initiate_transfer_result(bank_id, unit_id) = "Ok"
         THEN /\ units' = [units EXCEPT ![unit_id].status = "InTransit"]
              /\ history' = record_status_change(history, unit_id,
                                units[unit_id].status, "InTransit", bank_id, now)
              /\ HistBounded(history')
              /\ last' = Call("initiate_transfer", "Ok")
         ELSE UNCHANGED <<units, history, last>>
    /\ UNCHANGED <<admin, banks, hospitals, requests, request_keys,
                   next_id, next_request_id, now, inv_vars,
                   rq_vars, q_vars>>

initiate_transfer(signer, bank_id, unit_id) ==
    /\ signer = bank_id
    /\ IF initiate_transfer_result(bank_id, unit_id) = "Ok"
         THEN /\ units' = [units EXCEPT ![unit_id].status = "InTransit",
                                        ![unit_id].transfer_timestamp = Some(now)]
              /\ history' = record_status_change(history, unit_id,
                                units[unit_id].status, "InTransit", bank_id, now)
              /\ HistBounded(history')
              /\ last' = Call("initiate_transfer", "Ok")
         ELSE UNCHANGED <<units, history, last>>
    /\ UNCHANGED <<admin, banks, hospitals, requests, request_keys,
                   next_id, next_request_id, now, inv_vars,
                   rq_vars, q_vars>>

confirm_delivery_result(hospital, unit_id) ==
    IF ~is_hospital(hospital) THEN "UnauthorizedHospital"
    ELSE IF unit_id \notin DOMAIN units THEN "UnitNotFound"
    ELSE IF units[unit_id].recipient_hospital # Some(hospital) THEN "Unauthorized"
    ELSE IF units[unit_id].status # "InTransit" THEN "InvalidStatus"
    ELSE IF units[unit_id].expiration_date <= now THEN "UnitExpired"
    ELSE "Ok"

confirm_delivery(signer, hospital, unit_id) ==
    /\ signer = hospital
    /\ LET res == confirm_delivery_result(hospital, unit_id) IN
       IF res = "UnitExpired"
         THEN (* expired during transit: the unit is stored as Expired and the *)
              (* change is recorded before the error is returned               *)
              /\ units' = [units EXCEPT ![unit_id].status = "Expired"]
              /\ history' = record_status_change(history, unit_id,
                                units[unit_id].status, "Expired", hospital, now)
              /\ HistBounded(history')
              /\ last' = Call("confirm_delivery", res)
       ELSE IF res = "Ok"
         THEN /\ units' = [units EXCEPT ![unit_id].status = "Delivered",
                                        ![unit_id].delivery_timestamp = Some(now)]
              /\ history' = record_status_change(history, unit_id,
                                units[unit_id].status, "Delivered", hospital, now)
              /\ HistBounded(history')
              /\ last' = Call("confirm_delivery", res)
       ELSE UNCHANGED <<units, history, last>>
    /\ UNCHANGED <<admin, banks, hospitals, requests, request_keys,
                   next_id, next_request_id, now, inv_vars,
                   rq_vars, q_vars>>

withdraw_blood_result(caller, unit_id) ==
    IF ~is_blood_bank(caller) /\ ~is_hospital(caller) THEN "Unauthorized"
    ELSE IF unit_id \notin DOMAIN units THEN "UnitNotFound"
    ELSE "Ok"

withdraw_blood(signer, caller, unit_id) ==
    /\ signer = caller
    /\ IF withdraw_blood_result(caller, unit_id) = "Ok"
         THEN /\ units' = [units EXCEPT ![unit_id].status = "Discarded"]
              /\ history' = record_status_change(history, unit_id,
                                units[unit_id].status, "Discarded", caller, now)
              /\ HistBounded(history')
              /\ last' = Call("withdraw_blood", "Ok")
         ELSE UNCHANGED <<units, history, last>>
    /\ UNCHANGED <<admin, banks, hospitals, requests, request_keys,
                   next_id, next_request_id, now, inv_vars,
                   rq_vars, q_vars>>

----------------------------------------------------------------------------
(* HealthChainContract: blood requests *)

RequestKey(hospital_id, blood_type, quantity_ml, urgency, required_by, delivery_address) ==
    [hospital_id |-> hospital_id, blood_type |-> blood_type,
     quantity_ml |-> quantity_ml, urgency |-> urgency,
     required_by |-> required_by, delivery_address |-> delivery_address]

(* create_request's checks as they would be without the lookup in           *)
(* REQUEST_KEYS.                                                            *)
create_request_result_without_duplicate_check(hospital_id, blood_type, quantity_ml, urgency, required_by, delivery_address) ==
    IF ~is_hospital(hospital_id) THEN "Unauthorized"
    ELSE IF ~(MIN_REQUEST_ML <= quantity_ml /\ quantity_ml <= MAX_REQUEST_ML)
      THEN "InvalidQuantity"
    ELSE IF Len(delivery_address) = 0 THEN "InvalidDeliveryAddress"
    ELSE IF required_by <= now THEN "InvalidRequiredBy"
    ELSE "Ok"

create_request_result(hospital_id, blood_type, quantity_ml, urgency, required_by, delivery_address) ==
    IF ~is_hospital(hospital_id) THEN "Unauthorized"
    ELSE IF ~(MIN_REQUEST_ML <= quantity_ml /\ quantity_ml <= MAX_REQUEST_ML)
      THEN "InvalidQuantity"
    ELSE IF Len(delivery_address) = 0 THEN "InvalidDeliveryAddress"
    ELSE IF required_by <= now THEN "InvalidRequiredBy"
    ELSE IF RequestKey(hospital_id, blood_type, quantity_ml, urgency, required_by,
                       delivery_address) \in DOMAIN request_keys
      THEN "DuplicateRequest"
    ELSE "Ok"

create_request(signer, hospital_id, blood_type, quantity_ml, urgency, required_by, delivery_address) ==
    /\ signer = hospital_id
    /\ IF create_request_result(hospital_id, blood_type, quantity_ml, urgency,
                                required_by, delivery_address) = "Ok"
         THEN /\ next_request_id <= MaxRequests
              /\ next_request_id' = next_request_id + 1
              /\ requests' = MapSet(requests, next_request_id,
                    [id |-> next_request_id, hospital_id |-> hospital_id,
                     blood_type |-> blood_type, quantity_ml |-> quantity_ml,
                     urgency |-> urgency, required_by |-> required_by,
                     delivery_address |-> delivery_address, created_at |-> now,
                     status |-> "Pending", fulfillment_timestamp |-> None,
                     reserved_unit_ids |-> <<>>])
              /\ request_keys' = MapSet(request_keys,
                    RequestKey(hospital_id, blood_type, quantity_ml, urgency,
                               required_by, delivery_address),
                    next_request_id)
              /\ last' = Call("create_request", "Ok")
         ELSE UNCHANGED <<requests, request_keys, next_request_id, last>>
    /\ UNCHANGED <<admin, banks, hospitals, units, history, next_id, now, inv_vars,
                   rq_vars, q_vars>>

is_valid_status_transition(old_status, new_status) ==
    \/ old_status = "Pending" /\ new_status \in {"Approved", "Rejected", "Cancelled"}
    \/ old_status = "Approved" /\ new_status \in {"InProgress", "Cancelled"}
    \/ old_status = "InProgress" /\ new_status \in {"Fulfilled", "Cancelled"}

update_request_status_result(request_id, new_status) ==
    IF request_id \notin DOMAIN requests THEN "UnitNotFound"
    ELSE IF ~is_valid_status_transition(requests[request_id].status, new_status)
      THEN "InvalidTransition"
    ELSE "Ok"

(* No require_auth: any invoker. *)
(* `signer` is the identity that authorised the invocation; the handler     *)
(* asks for no authorisation (it has no require_auth).                      *)
update_request_status(signer, request_id, new_status) ==
    /\ IF update_request_status_result(request_id, new_status) = "Ok"
         THEN /\ requests' = [requests EXCEPT ![request_id].status = new_status]
              /\ last' = Call("update_request_status", "Ok")
         ELSE UNCHANGED <<requests, last>>
    /\ UNCHANGED <<admin, banks, hospitals, units, history, request_keys,
                   next_id, next_request_id, now, inv_vars,
                   rq_vars, q_vars>>

cancel_request_result(request_id) ==
    IF request_id \notin DOMAIN requests THEN "UnitNotFound"
    ELSE IF ~is_hospital(requests[request_id].hospital_id) /\ ~is_blood_bank(CONTRACT)
      THEN "Unauthorized"
    ELSE IF requests[request_id].status \in {"Fulfilled", "Cancelled"}
      THEN "InvalidStatus"
    ELSE "Ok"

(* The release loop of cancel_request over reserved_unit_ids[i..] *)
RECURSIVE release_reserved_units(_, _, _)
release_reserved_units(ids, i, us) ==
    IF i > Len(ids) THEN us
    ELSE LET unit_id == ids[i] IN
         IF unit_id \in DOMAIN us /\ us[unit_id].status = "Reserved"
           THEN release_reserved_units(ids, i + 1,
                    [us EXCEPT ![unit_id].status = "Available",
                               ![unit_id].recipient_hospital = None,
                               ![unit_id].allocation_timestamp = None])
           ELSE release_reserved_units(ids, i + 1, us)

(* `signer` authorised the invocation; the handler has no require_auth and  *)
(* takes the contract's own address as the caller.                          *)
cancel_request_releasing_key(signer, request_id) ==
    /\ IF cancel_request_result(request_id) = "Ok"
         THEN /\ units' = release_reserved_units(
                              requests[request_id].reserved_unit_ids, 1, units)
              /\ requests' = [requests EXCEPT ![request_id].status = "Cancelled",
                                              ![request_id].reserved_unit_ids = <<>>]
              /\ request_keys' = [k \in {x \in DOMAIN request_keys :
                                            request_keys[x] # request_id}
                                     |-> request_keys[k]]
              /\ last' = Call("cancel_request", "Ok")
         ELSE UNCHANGED <<units, requests, request_keys, last>>
    /\ UNCHANGED <<admin, banks, hospitals, history,
                   next_id, next_request_id, now, inv_vars,
                   rq_vars, q_vars>>

(* cancel_request never touches REQUEST_KEYS.                               *)
cancel_request(signer, request_id) ==
    /\ IF cancel_request_result(request_id) = "Ok"
         THEN /\ units' = release_reserved_units(
                              requests[request_id].reserved_unit_ids, 1, units)
              /\ requests' = [requests EXCEPT ![request_id].status = "Cancelled",
                                              ![request_id].reserved_unit_ids = <<>>]
              /\ last' = Call("cancel_request", "Ok")
         ELSE UNCHANGED <<units, requests, last>>
    /\ UNCHANGED <<admin, banks, hospitals, history, request_keys,
                   next_id, next_request_id, now, inv_vars,
                   rq_vars, q_vars>>

(* The loop of fulfill_request over unit_ids[i..]: `us` is the handler's     *)
(* local copy of the unit map, `hs` the stored histories.                   *)
RECURSIVE fulfill_loop(_, _, _, _, _)
fulfill_loop(unit_ids, i, us, hs, hospital_id) ==
    IF i > Len(unit_ids) THEN [res |-> "Ok", units |-> us, history |-> hs]
    ELSE LET unit_id == unit_ids[i] IN
         IF unit_id \notin DOMAIN us
           THEN [res |-> "UnitNotFound", units |-> us, history |-> hs]
         ELSE IF us[unit_id].recipient_hospital # Some(hospital_id)
           THEN [res |-> "Unauthorized", units |-> us, history |-> hs]
         ELSE fulfill_loop(unit_ids, i + 1,
                  [us EXCEPT ![unit_id].status = "Delivered",
                             ![unit_id].delivery_timestamp = Some(now)],
                  record_status_change(hs, unit_id, us[unit_id].status,
                                       "Delivered", CONTRACT, now),
                  hospital_id)

fulfill_request_result(request_id, unit_ids) ==
    IF request_id \notin DOMAIN requests
      THEN [res |-> "UnitNotFound", units |-> units, history |-> history]
    ELSE IF ~is_blood_bank(CONTRACT)
      THEN [res |-> "Unauthorized", units |-> units, history |-> history]
    ELSE IF requests[request_id].status \notin {"Approved", "InProgress"}
      THEN [res |-> "InvalidStatus", units |-> units, history |-> history]
    ELSE fulfill_loop(unit_ids, 1, units, history, requests[request_id].hospital_id)

(* No require_auth: the "caller" the handler checks is the contract itself. *)
(* `signer` authorised the invocation; the handler has no require_auth and  *)
(* takes the contract's own address as the caller.                          *)
fulfill_request_without_status_update(signer, request_id, unit_ids) ==
    /\ LET r == fulfill_request_result(request_id, unit_ids) IN
       /\ history' = r.history
       /\ HistBounded(history')
       /\ IF r.res = "Ok"
            THEN /\ units' = r.units
                 /\ requests' = [requests EXCEPT
                        ![request_id].fulfillment_timestamp = Some(now),
                        ![request_id].reserved_unit_ids = unit_ids]
            ELSE UNCHANGED <<units, requests>>
       /\ last' = IF r.res = "Ok" \/ r.history # history
                    THEN Call("fulfill_request", r.res) ELSE last
    /\ UNCHANGED <<admin, banks, hospitals, request_keys,
                   next_id, next_request_id, now, inv_vars,
                   rq_vars, q_vars>>

fulfill_request(signer, request_id, unit_ids) ==
    /\ LET r == fulfill_request_result(request_id, unit_ids) IN
       /\ history' = r.history
       /\ HistBounded(history')
       /\ IF r.res = "Ok"
            THEN /\ units' = r.units
                 /\ requests' = [requests EXCEPT
                        ![request_id].status = "Fulfilled",
                        ![request_id].fulfillment_timestamp = Some(now),
                        ![request_id].reserved_unit_ids = unit_ids]
            ELSE UNCHANGED <<units, requests>>
       /\ last' = IF r.res = "Ok" \/ r.history # history
                    THEN Call("fulfill_request", r.res) ELSE last
    /\ UNCHANGED <<admin, banks, hospitals, request_keys,
                   next_id, next_request_id, now, inv_vars,
                   rq_vars, q_vars>>

----------------------------------------------------------------------------
(* Unit lifecycle of HealthChainContract: one bank, two hospitals. *)
Next ==
    \/ Tick
    \/ \E s \in Signers, a \in AdminCandidates : initialize(s, a)
    \/ \E s \in Signers : register_blood_bank(s, "bank")
    \/ \E s \in Signers, h \in HospitalCandidates : register_hospital(s, h)
    \/ \E s \in Signers, bt \in BloodType,
          q \in {MIN_QUANTITY_ML - 1, MIN_QUANTITY_ML},
          e \in {now, now + SECONDS_PER_DAY} :
            register_blood(s, "bank", bt, q, e)
    \/ \E bt \in BloodType : add_blood_unit(bt, MIN_QUANTITY_ML, now + SECONDS_PER_DAY)
    \/ \E s \in Signers, u \in UnitIds, h \in HospitalCandidates :
            allocate_blood(s, "bank", u, h)
    \/ \E s \in Signers, ids \in UnitIdLists, h \in HospitalCandidates :
            batch_allocate_blood(s, "bank", ids, h)
    \/ \E s \in Signers, u \in UnitIds : cancel_allocation(s, "bank", u)
    \/ \E s \in Signers, u \in UnitIds : initiate_transfer(s, "bank", u)
    \/ \E s \in Signers, h \in HospitalCandidates, u \in UnitIds : confirm_delivery(s, h, u)
    \/ \E s \in Signers, c \in {"bank", "hospA"}, u \in UnitIds : withdraw_blood(s, c, u)

Spec == Init /\ [][Next]_vars

(* Allocation: the operations that decide what batch_allocate_blood finds   *)
(* (registries, registration, allocation and its cancellation, transfer,    *)
(* withdrawal, the ledger time), with one bank and hospB never registered.  *)
NextAlloc ==
    \/ Tick
    \/ \E s \in Signers, a \in AdminCandidates : initialize(s, a)
    \/ \E s \in Signers : register_blood_bank(s, "bank")
    \/ \E s \in Signers : register_hospital(s, "hospA")
    \/ \E s \in Signers, bt \in BloodType :
            register_blood(s, "bank", bt, MIN_QUANTITY_ML, now + SECONDS_PER_DAY)
    \/ \E s \in Signers, u \in UnitIds : allocate_blood(s, "bank", u, "hospA")
    \/ \E s \in Signers, ids \in UnitIdLists, h \in HospitalCandidates :
            batch_allocate_blood(s, "bank", ids, h)
    \/ \E s \in Signers, u \in UnitIds : cancel_allocation(s, "bank", u)
    \/ \E s \in Signers, u \in UnitIds : initiate_transfer(s, "bank", u)
    \/ \E s \in Signers, u \in UnitIds : withdraw_blood(s, "bank", u)

SpecAlloc == Init /\ [][NextAlloc]_vars

(* Allocation of single units and its cancellation, by the registered bank *)
(* and by an unregistered one.                                             *)
NextCancel ==
    \/ Tick
    \/ \E s \in Signers, a \in AdminCandidates : initialize(s, a)
    \/ \E s \in Signers : register_blood_bank(s, "bank")
    \/ \E s \in Signers : register_hospital(s, "hospA")
    \/ \E s \in Signers, bt \in BloodType, q \in {MIN_QUANTITY_ML, MAX_QUANTITY_ML} :
            register_blood(s, "bank", bt, q, now + SECONDS_PER_DAY)
    \/ \E s \in Signers, b \in {"bank", "hospA"}, u \in UnitIds, h \in HospitalCandidates :
            allocate_blood(s, b, u, h)
    \/ \E s \in Signers, b \in {"bank", "hospA"}, u \in UnitIds : cancel_allocation(s, b, u)
    \/ \E s \in Signers, u \in UnitIds : initiate_transfer(s, "bank", u)
    \/ \E s \in Signers, u \in UnitIds : withdraw_blood(s, "bank", u)

SpecCancel == Init /\ [][NextCancel]_vars

(* Requests and the units they are fulfilled with: banks "bank" and the     *)
(* contract's own address, one hospital.                                    *)
WardA == <<"W", "a", "r", "d", " ", "A">>

NextReq ==
    \/ Tick
    \/ \E s \in Signers, a \in AdminCandidates : initialize(s, a)
    \/ \E s \in Signers, b \in BankCandidates : register_blood_bank(s, b)
    \/ \E s \in Signers : register_hospital(s, "hospA")
    \/ \E s \in Signers, bt \in BloodType :
            register_blood(s, "bank", bt, MIN_QUANTITY_ML, now + SECONDS_PER_DAY)
    \/ \E s \in Signers, u \in UnitIds : allocate_blood(s, "bank", u, "hospA")
    \/ \E s \in Signers, u \in UnitIds : initiate_transfer(s, "bank", u)
    \/ \E s \in Signers, u \in UnitIds : withdraw_blood(s, "bank", u)
    \/ \E s \in Signers, bt \in BloodType, rb \in {now, now + SECONDS_PER_DAY},
          da \in {<<>>, WardA} :
            create_request(s, "hospA", bt, MIN_REQUEST_ML, "Urgent", rb, da)
    \/ \E s \in Signers, r \in RequestIds, st \in RequestStatus :
            update_request_status(s, r, st)
    \/ \E s \in Signers, r \in RequestIds : cancel_request(s, r)
    \/ \E s \in Signers, r \in RequestIds, ids \in ShortLists :
            fulfill_request(s, r, ids)

SpecReq == Init /\ [][NextReq]_vars

(* Requests alone: creation, status updates and cancellation by two         *)
(* hospitals, without units; initialize may be invoked for "admin" and for  *)
(* "hospB".                                                                 *)
NextCreate ==
    \/ Tick
    \/ \E s \in Signers, a \in AdminCandidates \cup {"hospB"} : initialize(s, a)
    \/ \E s \in Signers, h \in HospitalCandidates : register_hospital(s, h)
    \/ \E s \in Signers, h \in HospitalCandidates, bt \in BloodType,
          q \in {MIN_REQUEST_ML - 1, MIN_REQUEST_ML, MAX_REQUEST_ML},
          rb \in {now, now + SECONDS_PER_DAY}, da \in {<<>>, WardA} :
            create_request(s, h, bt, q, "Urgent", rb, da)
    \/ \E s \in Signers, r \in RequestIds, st \in RequestStatus :
            update_request_status(s, r, st)
    \/ \E s \in Signers, r \in RequestIds : cancel_request(s, r)

SpecCreate == Init /\ [][NextCreate]_vars

(* Creation of units and requests, with arguments that pass and arguments  *)
(* that fail each validation.                                              *)
NextIds ==
    \/ Tick
    \/ \E s \in Signers, a \in AdminCandidates : initialize(s, a)
    \/ \E s \in Signers : register_blood_bank(s, "bank")
    \/ \E s \in Signers, h \in HospitalCandidates : register_hospital(s, h)
    \/ \E s \in Signers, b \in {"bank", "hospA"}, bt \in BloodType,
          q \in {MIN_QUANTITY_ML - 1, MIN_QUANTITY_ML, MAX_QUANTITY_ML},
          e \in {now, now + SECONDS_PER_DAY} :
            register_blood(s, b, bt, q, e)
    \/ \E bt \in BloodType : add_blood_unit(bt, MIN_QUANTITY_ML, now + SECONDS_PER_DAY)
    \/ \E s \in Signers, h \in HospitalCandidates, bt \in BloodType,
          q \in {MIN_REQUEST_ML - 1, MIN_REQUEST_ML, MAX_REQUEST_ML},
          rb \in {now, now + SECONDS_PER_DAY}, da \in {<<>>, WardA} :
            create_request(s, h, bt, q, "Urgent", rb, da)

SpecIds == Init /\ [][NextIds]_vars

(* Registration with quantities and expirations at, and one step outside,   *)
(* each limit.                                                              *)
RegisterQuantities == {MIN_QUANTITY_ML - 1, MIN_QUANTITY_ML, MAX_QUANTITY_ML, MAX_QUANTITY_ML + 1}

RegisterShelfLives ==
    {0, MIN_SHELF_LIFE_DAYS * SECONDS_PER_DAY - 1, MIN_SHELF_LIFE_DAYS * SECONDS_PER_DAY,
     MAX_SHELF_LIFE_DAYS * SECONDS_PER_DAY, MAX_SHELF_LIFE_DAYS * SECONDS_PER_DAY + 1}

NextRegister ==
    \/ Tick
    \/ initialize("admin", "admin")
    \/ \E b \in {"bank", "hospA"} : register_blood_bank("admin", b)
    \/ register_hospital("admin", "hospA")
    \/ \E b \in {"bank", "hospA", "hospB"}, bt \in BloodType, q \in RegisterQuantities, d \in RegisterShelfLives :
            register_blood(b, b, bt, q, now + d)
    \/ \E bt \in BloodType, q \in {MIN_QUANTITY_ML - 1, MAX_QUANTITY_ML + 1} :
            add_blood_unit(bt, q, now)

SpecRegister == Init /\ [][NextRegister]_vars

----------------------------------------------------------------------------
(* InventoryContract.  types.rs and validation.rs of the inventory crate    *)
(* are not part of the sources: BloodUnit::is_expired, BloodUnit::validate, *)
(* BloodStatus::is_terminal and the validation functions follow the         *)
(* specification (sections 4.1 and 4.2) and the crate's tests.              *)

INV_MIN_QUANTITY_ML == 100
INV_MAX_QUANTITY_ML == 600
MAX_EXPIRATION_DAYS == 42

inv_is_expired(unit, current_time) == current_time >= unit.expiration_timestamp

inv_is_terminal(status) == status \in {"Delivered", "Expired", "Discarded"}

inv_validate_status_transition(from, to) ==
    IF \/ from = "Available" /\ to \in {"Reserved", "Expired", "Discarded"}
       \/ from = "Reserved" /\ to \in {"Available", "InTransit", "Expired", "Discarded"}
       \/ from = "InTransit" /\ to \in {"Delivered", "Expired", "Discarded"}
      THEN "Ok" ELSE "InvalidStatusTransition"

inv_validate_blood_registration(quantity_ml, expiration_timestamp) ==
    IF quantity_ml < INV_MIN_QUANTITY_ML \/ quantity_ml > INV_MAX_QUANTITY_ML
      THEN "InvalidQuantity"
    ELSE IF expiration_timestamp <= now
            \/ expiration_timestamp - now > MAX_EXPIRATION_DAYS * SECONDS_PER_DAY
      THEN "InvalidExpiration"
    ELSE "Ok"

inv_validate_minimum_shelf_life(expiration_timestamp) ==
    IF expiration_timestamp - now < MIN_SHELF_LIFE_DAYS * SECONDS_PER_DAY
      THEN "InvalidExpiration" ELSE "Ok"

inv_unit_validate(unit, current_time) ==
    IF unit.quantity_ml < INV_MIN_QUANTITY_ML \/ unit.quantity_ml > INV_MAX_QUANTITY_ML
      THEN "InvalidQuantity"
    ELSE IF unit.expiration_timestamp <= unit.donation_timestamp
      THEN "InvalidExpiration"
    ELSE "Ok"

(* storage::is_authorized_bank: the admin is the only authorised bank *)
inv_is_authorized_bank(bank) == bank = inv_admin[1]

(* Vec push_back on the index stored under `key` *)
IndexPush(index, key, id) ==
    MapSet(index, key, IF key \in DOMAIN index THEN Append(index[key], id) ELSE <<id>>)

(* storage::record_status_change on the stored histories and change counts *)
inv_record_status_change_replacing_history(h, unit_id, from_status, to_status, authorized_by, reason, hid) ==
    [h EXCEPT ![unit_id] = <<[id |-> hid, blood_unit_id |-> unit_id,
                              from_status |-> from_status,
                              to_status |-> to_status,
                              authorized_by |-> authorized_by,
                              changed_at |-> now,
                              reason |-> reason]>>]

inv_record_status_change(h, unit_id, from_status, to_status, authorized_by, reason, hid) ==
    [h EXCEPT ![unit_id] = Append(@, [id |-> hid, blood_unit_id |-> unit_id,
                                      from_status |-> from_status,
                                      to_status |-> to_status,
                                      authorized_by |-> authorized_by,
                                      changed_at |-> now,
                                      reason |-> reason])]

inv_initialize_result == IF inv_admin # None THEN "AlreadyInitialized" ELSE "Ok"

inv_initialize(signer, a) ==
    /\ signer = a
    /\ IF inv_initialize_result # "Ok"
         THEN UNCHANGED <<inv_admin, last>>
         ELSE /\ inv_admin' = Some(a)
              /\ last' = Call("initialize", "Ok")
    /\ UNCHANGED <<hc_vars, rq_vars, q_vars, now, inv_units, inv_history, inv_change_count,
                   inv_unit_counter, inv_history_counter,
                   inv_type_index, inv_bank_index, inv_status_index, inv_donor_index>>

(* The checks of register_blood that precede the id counter increment *)
inv_register_blood_precheck(bank_id, quantity_ml, expiration_timestamp) ==
    IF inv_admin = None THEN "NotInitialized"
    ELSE IF ~inv_is_authorized_bank(bank_id) THEN "NotAuthorizedBloodBank"
    ELSE IF inv_validate_blood_registration(quantity_ml, expiration_timestamp) # "Ok"
      THEN inv_validate_blood_registration(quantity_ml, expiration_timestamp)
    ELSE inv_validate_minimum_shelf_life(expiration_timestamp)

inv_register_blood(signer, bank_id, blood_type, quantity_ml, expiration_timestamp, donor_id) ==
    /\ signer = bank_id
    /\ IF inv_register_blood_precheck(bank_id, quantity_ml, expiration_timestamp) # "Ok"
         THEN UNCHANGED <<inv_units, inv_unit_counter, inv_type_index, inv_bank_index,
                          inv_status_index, inv_donor_index, last>>
         ELSE LET blood_unit_id == inv_unit_counter + 1
                  blood_unit == [id |-> blood_unit_id, blood_type |-> blood_type,
                                 quantity_ml |-> quantity_ml, bank_id |-> bank_id,
                                 donor_id |-> donor_id, donation_timestamp |-> now,
                                 expiration_timestamp |-> expiration_timestamp,
                                 status |-> "Available"]
                  res == inv_unit_validate(blood_unit, now)
              IN /\ blood_unit_id <= MaxUnits
                 /\ inv_unit_counter' = blood_unit_id
                 /\ last' = Call("register_blood", res)
                 /\ IF res = "Ok"
                      THEN /\ inv_units' = MapSet(inv_units, blood_unit_id, blood_unit)
                           /\ inv_type_index' = IndexPush(inv_type_index, blood_type, blood_unit_id)
                           /\ inv_bank_index' = IndexPush(inv_bank_index, bank_id, blood_unit_id)
                           /\ inv_status_index' = IndexPush(inv_status_index, "Available", blood_unit_id)
                           /\ inv_donor_index' = IF donor_id = None THEN inv_donor_index
                                                 ELSE IndexPush(inv_donor_index, donor_id[1], blood_unit_id)
                      ELSE UNCHANGED <<inv_units, inv_type_index, inv_bank_index,
                                       inv_status_index, inv_donor_index>>
    /\ UNCHANGED <<hc_vars, rq_vars, q_vars, now, inv_admin, inv_history, inv_change_count,
                   inv_history_counter>>

(* The checks update_status and batch_update_status make on one unit *)
inv_unit_check(us, unit_id, new_status) ==
    IF unit_id \notin DOMAIN us THEN "NotFound"
    ELSE IF inv_is_expired(us[unit_id], now) THEN "BloodUnitExpired"
    ELSE IF inv_is_terminal(us[unit_id].status) THEN "InvalidStatusTransition"
    ELSE inv_validate_status_transition(us[unit_id].status, new_status)

(* storage::get_admin panics when the admin is not set *)
update_status_result(unit_id, new_status, authorized_by) ==
    IF inv_admin = None THEN "Panic"
    ELSE IF authorized_by # inv_admin[1] THEN "Unauthorized"
    ELSE inv_unit_check(inv_units, unit_id, new_status)

update_status_writing_before_check(signer, unit_id, new_status, authorized_by, reason) ==
    /\ signer = authorized_by
    /\ IF update_status_result(unit_id, new_status, authorized_by) \in {"Ok", "InvalidStatusTransition"}
         THEN /\ inv_units' = [inv_units EXCEPT ![unit_id].status = new_status]
              /\ inv_history' = inv_record_status_change(inv_history, unit_id,
                                    inv_units[unit_id].status, new_status,
                                    authorized_by, reason, inv_history_counter + 1)
              /\ HistBounded(inv_history')
              /\ inv_history_counter' = inv_history_counter + 1
              /\ inv_change_count' = [inv_change_count EXCEPT ![unit_id] = @ + 1]
              /\ last' = Call("update_status", "Ok")
         ELSE UNCHANGED <<inv_units, inv_history, inv_history_counter,
                          inv_change_count, last>>
    /\ UNCHANGED <<hc_vars, rq_vars, q_vars, now, inv_admin, inv_unit_counter,
                   inv_type_index, inv_bank_index, inv_status_index, inv_donor_index>>

update_status(signer, unit_id, new_status, authorized_by, reason) ==
    /\ signer = authorized_by
    /\ IF update_status_result(unit_id, new_status, authorized_by) = "Ok"
         THEN /\ inv_units' = [inv_units EXCEPT ![unit_id].status = new_status]
              /\ inv_history' = inv_record_status_change(inv_history, unit_id,
                                    inv_units[unit_id].status, new_status,
                                    authorized_by, reason, inv_history_counter + 1)
              /\ HistBounded(inv_history')
              /\ inv_history_counter' = inv_history_counter + 1
              /\ inv_change_count' = [inv_change_count EXCEPT ![unit_id] = @ + 1]
              /\ last' = Call("update_status", "Ok")
         ELSE UNCHANGED <<inv_units, inv_history, inv_history_counter,
                          inv_change_count, last>>
    /\ UNCHANGED <<hc_vars, rq_vars, q_vars, now, inv_admin, inv_unit_counter,
                   inv_type_index, inv_bank_index, inv_status_index, inv_donor_index>>

DeliveryLocation == <<"H", "o", "s", "p">>
MarkedAsExpired == <<"M", "a", "r", "k", "e", "d">>

mark_delivered(signer, unit_id, authorized_by, delivery_location) ==
    update_status(signer, unit_id, "Delivered", authorized_by, Some(delivery_location))

mark_expired(signer, unit_id, authorized_by) ==
    update_status(signer, unit_id, "Expired", authorized_by, Some(MarkedAsExpired))

(* The loop of batch_update_status over unit_ids[i..]; every element is     *)
(* written to the store as it is processed.                                 *)
RECURSIVE batch_update_loop(_, _, _, _, _, _, _, _, _)
batch_update_loop(unit_ids, i, us, hs, cc, hc, new_status, authorized_by, reason) ==
    IF i > Len(unit_ids)
      THEN [res |-> "Ok", units |-> us, history |-> hs, count |-> cc, hcounter |-> hc]
    ELSE LET unit_id == unit_ids[i]
             chk == inv_unit_check(us, unit_id, new_status)
         IN IF chk # "Ok"
              THEN [res |-> chk, units |-> us, history |-> hs, count |-> cc, hcounter |-> hc]
              ELSE batch_update_loop(unit_ids, i + 1,
                       [us EXCEPT ![unit_id].status = new_status],
                       inv_record_status_change(hs, unit_id, us[unit_id].status,
                                                new_status, authorized_by, reason, hc + 1),
                       [cc EXCEPT ![unit_id] = @ + 1],
                       hc + 1, new_status, authorized_by, reason)

batch_update_status_result(unit_ids, new_status, authorized_by, reason) ==
    IF inv_admin = None
      THEN [res |-> "Panic", units |-> inv_units, history |-> inv_history,
            count |-> inv_change_count, hcounter |-> inv_history_counter]
    ELSE IF authorized_by # inv_admin[1]
      THEN [res |-> "Unauthorized", units |-> inv_units, history |-> inv_history,
            count |-> inv_change_count, hcounter |-> inv_history_counter]
    ELSE batch_update_loop(unit_ids, 1, inv_units, inv_history, inv_change_count,
                           inv_history_counter, new_status, authorized_by, reason)

batch_update_status(signer, unit_ids, new_status, authorized_by, reason) ==
    /\ signer = authorized_by
    /\ LET r == batch_update_status_result(unit_ids, new_status, authorized_by, reason) IN
       /\ inv_units' = r.units
       /\ inv_history' = r.history
       /\ HistBounded(inv_history')
       /\ inv_change_count' = r.count
       /\ inv_history_counter' = r.hcounter
       /\ last' = IF r.units # inv_units
                    THEN Call("batch_update_status", r.res) ELSE last
    /\ UNCHANGED <<hc_vars, rq_vars, q_vars, now, inv_admin, inv_unit_counter,
                   inv_type_index, inv_bank_index, inv_status_index, inv_donor_index>>

NextInv ==
    \/ Tick
    \/ \E s \in Signers, a \in AdminCandidates : inv_initialize(s, a)
    \/ \E s \in Signers, b \in {"admin", "bank"}, bt \in BloodType,
          q \in {INV_MIN_QUANTITY_ML - 1, INV_MIN_QUANTITY_ML},
          e \in {now, now + SECONDS_PER_DAY}, d \in {None, Some("bank")} :
            inv_register_blood(s, b, bt, q, e, d)
    \/ \E s \in Signers, u \in UnitIds, st \in BloodStatus, a \in {"admin", "bank"} :
            update_status(s, u, st, a, None)
    \/ \E s \in Signers, u \in UnitIds, a \in {"admin", "bank"} :
            mark_delivered(s, u, a, DeliveryLocation)
    \/ \E s \in Signers, u \in UnitIds, a \in {"admin", "bank"} :
            mark_expired(s, u, a)
    \/ \E s \in Signers, ids \in ShortLists, st \in BloodStatus, a \in {"admin", "bank"} :
            batch_update_status(s, ids, st, a, None)

SpecInv == Init /\ [][NextInv]_vars

(* Batches of at most two unit ids, repetitions included. *)
PairLists == {ids \in ShortLists : Len(ids) <= 2}

(* Status changes by the admin on units with one or two days of shelf life. *)
NextStatus ==
    \/ Tick
    \/ inv_initialize("admin", "admin")
    \/ \E e \in {now + SECONDS_PER_DAY, now + 2 * SECONDS_PER_DAY} :
            inv_register_blood("admin", "admin", "OPositive", INV_MIN_QUANTITY_ML, e, None)
    \/ \E u \in UnitIds, st \in {"Reserved", "InTransit", "Discarded"}, a \in {"admin", "bank"} :
            update_status(a, u, st, a, None)
    \/ \E u \in UnitIds : mark_delivered("admin", u, "admin", DeliveryLocation)
    \/ \E u \in UnitIds : mark_expired("admin", u, "admin")
    \/ \E ids \in PairLists, st \in {"Reserved", "Expired"} :
            batch_update_status("admin", ids, st, "admin", None)

SpecStatus == Init /\ [][NextStatus]_vars

----------------------------------------------------------------------------
(* HealthChainContract: inventory queries *)

(* Map iteration: the keys in ascending order *)
RECURSIVE KeysAscending(_)
KeysAscending(S) ==
    IF S = {} THEN <<>>
    ELSE LET m == CHOOSE x \in S : \A y \in S : x <= y
         IN <<m>> \o KeysAscending(S \ {m})

units_iter == LET keys == KeysAscending(DOMAIN units)
              IN [i \in 1..Len(keys) |-> units[keys[i]]]

(* One step of the inner loop of the FIFO sort: positions j and j+1         *)
(* (0-based) are swapped when the earlier one expires later.                *)
fifo_compare_swap_on_equal(us, j) ==
    LET unit_j == us[j + 1]
        unit_j_plus_1 == us[j + 2]
    IN IF unit_j.expiration_date >= unit_j_plus_1.expiration_date
         THEN [us EXCEPT ![j + 1] = unit_j_plus_1, ![j + 2] = unit_j]
         ELSE us

fifo_compare_swap(us, j) ==
    LET unit_j == us[j + 1]
        unit_j_plus_1 == us[j + 2]
    IN IF unit_j.expiration_date > unit_j_plus_1.expiration_date
         THEN [us EXCEPT ![j + 1] = unit_j_plus_1, ![j + 2] = unit_j]
         ELSE us

RECURSIVE fifo_inner_loop(_, _, _)
fifo_inner_loop(us, j, bound) ==
    IF j >= bound THEN us
    ELSE fifo_inner_loop(fifo_compare_swap(us, j), j + 1, bound)

RECURSIVE fifo_outer_loop(_, _)
fifo_outer_loop(us, i) ==
    IF i >= Len(us) THEN us
    ELSE fifo_outer_loop(
             fifo_inner_loop(us, 0, IF Len(us) >= i + 1 THEN Len(us) - (i + 1) ELSE 0),
             i + 1)

query_by_blood_type(blood_type, min_quantity, max_results) ==
    LET temp_units == SelectSeq(units_iter, LAMBDA unit :
                          /\ unit.blood_type = blood_type
                          /\ unit.status = "Available"
                          /\ unit.quantity >= min_quantity
                          /\ unit.expiration_date > now)
        sorted == fifo_outer_loop(temp_units, 0)
        len == Len(temp_units)
        limit == IF max_results = 0 THEN len
                 ELSE IF max_results < len THEN max_results ELSE len
    IN [i \in 1..limit |-> sorted[i]]

(* u32::saturating_add, with the u32 range carried as 0..2^31-1, the widest *)
(* range the integers of the model have.                                    *)
wrapping_add(a, b) == IF a > 2147483647 - b THEN a - (2147483647 - b) - 1 ELSE a + b

saturating_add(a, b) == IF a > 2147483647 - b THEN 2147483647 ELSE a + b

(* The loop of check_availability over the units us[i..] with the running   *)
(* total; it returns as soon as the total reaches the required quantity.    *)
RECURSIVE check_availability_loop(_, _, _, _, _)
check_availability_loop(us, i, total_quantity, blood_type, required_quantity) ==
    IF i > Len(us) THEN total_quantity >= required_quantity
    ELSE IF us[i].blood_type = blood_type /\ us[i].status = "Available"
            /\ us[i].expiration_date > now
      THEN LET total == saturating_add(total_quantity, us[i].quantity)
           IN IF total >= required_quantity THEN TRUE
              ELSE check_availability_loop(us, i + 1, total, blood_type, required_quantity)
    ELSE check_availability_loop(us, i + 1, total_quantity, blood_type, required_quantity)

check_availability(blood_type, required_quantity) ==
    check_availability_loop(units_iter, 1, 0, blood_type, required_quantity)

(* Inventory queries as functions of the store.  The store is what up to    *)
(* MaxStock calls of add_blood_unit at time 0 leave (any blood type,        *)
(* quantity and expiration date; add_blood_unit validates nothing), with    *)
(* the admin, one bank and one hospital registered; allocation, transfer   *)
(* and the ledger time then take units out of the available stock.          *)
MaxStock == 2
StockIds == 1..MaxStock
StockBloodTypes == {"OPositive", "ANegative"}
StockQuantities == {MIN_QUANTITY_ML, 2147483647}
StockExpirations == {SECONDS_PER_DAY, 2 * SECONDS_PER_DAY}
StockUnits(k) ==
    {[i \in 1..k |-> NewUnit(i, f[i][1], f[i][2], f[i][3], CONTRACT, 0)] :
        f \in [1..k -> StockBloodTypes \X StockQuantities \X StockExpirations]}

InitStock ==
    /\ admin = Some("admin")
    /\ banks = {"bank"}
    /\ hospitals = {"hospA"}
    /\ \E k \in 0..MaxStock : units \in StockUnits(k) /\ next_id = k + 1
    /\ history = [u \in StockIds |-> <<>>]
    /\ requests = <<>>
    /\ request_keys = <<>>
    /\ next_request_id = 1
    /\ now = 0
    /\ last = Call("add_blood_unit", "Ok")
    /\ InitInv
    /\ InitRq
    /\ q_list = <<>>
    /\ q_limit = None
    /\ q_offset = None
    /\ q_result = None

NextStock ==
    \/ Tick
    \/ \E u \in StockIds : allocate_blood("bank", "bank", u, "hospA")
    \/ \E u \in StockIds : initiate_transfer("bank", "bank", u)

SpecStock == InitStock /\ [][NextStock]_vars

----------------------------------------------------------------------------
(* RequestContract (lifebank-soroban/contracts/requests) *)

(* Bound: the number of requests the RequestContract creates *)
MaxRq == 2

RQ_MIN_REQUEST_QUANTITY_ML == 50
RQ_MAX_REQUEST_QUANTITY_ML == 5000
MAX_DAYS_IN_FUTURE == 30
DEFAULT_QUERY_LIMIT == 50
MAX_QUERY_LIMIT == 200

RqRequestStatus == {"Pending", "Approved", "Fulfilled", "InDelivery",
                    "Completed", "Cancelled", "Expired"}
RqUrgencyLevel == {"Critical", "Urgent", "Normal"}
RqIds == 1..(MaxRq + 1)

priority_weight(urgency) ==
    CASE urgency = "Critical" -> 3
      [] urgency = "Urgent" -> 2
      [] urgency = "Normal" -> 1

can_transition_to(status, new_status) ==
    CASE status = "Pending" -> new_status \in {"Approved", "Cancelled", "Expired"}
      [] status = "Approved" -> new_status \in {"Fulfilled", "Cancelled", "Expired"}
      [] status = "Fulfilled" -> new_status \in {"InDelivery", "Cancelled"}
      [] status = "InDelivery" -> new_status \in {"Completed", "Cancelled"}
      [] OTHER -> FALSE

can_cancel_before_fulfilment(status) == status \in {"Pending", "Approved"}

can_cancel(status) == status \in {"Pending", "Approved", "Fulfilled", "InDelivery"}

rq_is_initialized == rq_admin # None

(* The admin is always authorised; any other address must be in the set. *)
rq_is_authorized_hospital(hospital) ==
    IF rq_admin # None /\ hospital = rq_admin[1] THEN TRUE
    ELSE hospital \in rq_authorized

is_hospital_authorized(hospital) == rq_is_authorized_hospital(hospital)

(* An index entry that was never written reads as the empty vector. *)
rq_index_get(index, key) == IF key \in DOMAIN index THEN index[key] ELSE <<>>

rq_index_push(index, key, id) ==
    [k \in DOMAIN index \cup {key} |->
        IF k = key THEN Append(rq_index_get(index, key), id) ELSE index[k]]

rq_get_requests_by_status(status) == rq_index_get(rq_status_index, status)
get_requests_by_status(status) == rq_get_requests_by_status(status)

remove_from_status_index(index, request_id, status) ==
    IF status \in DOMAIN index
      THEN [index EXCEPT ![status] = SelectSeq(index[status], LAMBDA id : id # request_id)]
      ELSE index

update_status_index(index, request_id, old_status, new_status) ==
    rq_index_push(remove_from_status_index(index, request_id, old_status),
                  new_status, request_id)

rq_validate_request_creation(quantity_ml, required_by) ==
    IF quantity_ml < RQ_MIN_REQUEST_QUANTITY_ML \/ quantity_ml > RQ_MAX_REQUEST_QUANTITY_ML
      THEN "InvalidQuantity"
    ELSE IF required_by <= now THEN "InvalidTimestamp"
    ELSE IF required_by > now + MAX_DAYS_IN_FUTURE * SECONDS_PER_DAY THEN "InvalidTimestamp"
    ELSE "Ok"

rq_validate_delivery_address(address) ==
    IF Len(address) = 0 THEN "InvalidInput" ELSE "Ok"

validate_not_expired_at_deadline(required_by) ==
    IF now > required_by THEN "RequestExpired" ELSE "Ok"

validate_not_expired(required_by) ==
    IF now >= required_by THEN "RequestExpired" ELSE "Ok"

validate_urgency_time_window(required_by, urgency_weight) ==
    LET time_available == IF required_by >= now THEN required_by - now ELSE 0
        min_time == CASE urgency_weight = 3 -> 3600
                      [] urgency_weight = 2 -> 4 * 3600
                      [] OTHER -> 24 * 3600
    IN IF time_available < min_time THEN "InvalidRequiredBy" ELSE "Ok"

(* BloodRequest::validate *)
rq_request_validate(request, current_time) ==
    IF request.quantity_ml < 50 \/ request.quantity_ml > 5000 THEN "InvalidQuantity"
    ELSE IF request.required_by <= current_time THEN "InvalidTimestamp"
    ELSE IF request.required_by > current_time + 30 * 86400 THEN "InvalidTimestamp"
    ELSE IF request.created_at >= request.required_by THEN "InvalidTimestamp"
    ELSE IF Len(request.delivery_address) = 0 THEN "InvalidInput"
    ELSE "Ok"

rq_initialize_result == IF rq_is_initialized THEN "AlreadyInitialized" ELSE "Ok"

rq_initialize_without_check(signer, a) ==
    /\ signer = a
    /\ rq_admin' = Some(a)
    /\ last' = Call("initialize", "Ok")
    /\ UNCHANGED <<hc_vars, inv_vars, q_vars, now, rq_authorized, rq_counter, rq_requests,
                   rq_hospital_index, rq_blood_type_index, rq_status_index, rq_urgency_index>>

rq_initialize(signer, a) ==
    /\ signer = a
    /\ IF rq_initialize_result # "Ok"
         THEN UNCHANGED <<rq_admin, last>>
         ELSE /\ rq_admin' = Some(a)
              /\ last' = Call("initialize", "Ok")
    /\ UNCHANGED <<hc_vars, inv_vars, q_vars, now, rq_authorized, rq_counter, rq_requests,
                   rq_hospital_index, rq_blood_type_index, rq_status_index, rq_urgency_index>>

authorize_hospital(signer, hospital) ==
    /\ IF ~rq_is_initialized
         THEN UNCHANGED <<rq_authorized, last>>
         ELSE /\ signer = rq_admin[1]
              /\ rq_authorized' = rq_authorized \cup {hospital}
              /\ last' = Call("authorize_hospital", "Ok")
    /\ UNCHANGED <<hc_vars, inv_vars, q_vars, now, rq_admin, rq_counter, rq_requests,
                   rq_hospital_index, rq_blood_type_index, rq_status_index, rq_urgency_index>>

revoke_hospital(signer, hospital) ==
    /\ IF ~rq_is_initialized
         THEN UNCHANGED <<rq_authorized, last>>
         ELSE /\ signer = rq_admin[1]
              /\ rq_authorized' = rq_authorized \ {hospital}
              /\ last' = Call("revoke_hospital", "Ok")
    /\ UNCHANGED <<hc_vars, inv_vars, q_vars, now, rq_admin, rq_counter, rq_requests,
                   rq_hospital_index, rq_blood_type_index, rq_status_index, rq_urgency_index>>

(* The checks of create_request that precede the id counter increment *)
rq_create_request_precheck_without_validation(hospital_id, quantity_ml, urgency, required_by, delivery_address) ==
    IF ~rq_is_initialized THEN "NotInitialized"
    ELSE IF ~rq_is_authorized_hospital(hospital_id) THEN "NotAuthorizedHospital"
    ELSE IF rq_validate_delivery_address(delivery_address) # "Ok"
      THEN rq_validate_delivery_address(delivery_address)
    ELSE validate_urgency_time_window(required_by, priority_weight(urgency))

rq_create_request_precheck_without_hospital_check(hospital_id, quantity_ml, urgency, required_by, delivery_address) ==
    IF ~rq_is_initialized THEN "NotInitialized"
    ELSE IF rq_validate_request_creation(quantity_ml, required_by) # "Ok"
      THEN rq_validate_request_creation(quantity_ml, required_by)
    ELSE IF rq_validate_delivery_address(delivery_address) # "Ok"
      THEN rq_validate_delivery_address(delivery_address)
    ELSE validate_urgency_time_window(required_by, priority_weight(urgency))

rq_create_request_precheck(hospital_id, quantity_ml, urgency, required_by, delivery_address) ==
    IF ~rq_is_initialized THEN "NotInitialized"
    ELSE IF ~rq_is_authorized_hospital(hospital_id) THEN "NotAuthorizedHospital"
    ELSE IF rq_validate_request_creation(quantity_ml, required_by) # "Ok"
      THEN rq_validate_request_creation(quantity_ml, required_by)
    ELSE IF rq_validate_delivery_address(delivery_address) # "Ok"
      THEN rq_validate_delivery_address(delivery_address)
    ELSE validate_urgency_time_window(required_by, priority_weight(urgency))

rq_new_request(hospital_id, blood_type, quantity_ml, urgency, required_by, delivery_address) ==
    [id |-> rq_counter + 1, hospital_id |-> hospital_id, blood_type |-> blood_type,
     quantity_ml |-> quantity_ml, urgency |-> urgency, status |-> "Pending",
     created_at |-> now, required_by |-> required_by, fulfilled_at |-> None,
     assigned_units |-> <<>>, delivery_address |-> delivery_address]

rq_create_request_result(hospital_id, blood_type, quantity_ml, urgency, required_by, delivery_address) ==
    IF rq_create_request_precheck(hospital_id, quantity_ml, urgency, required_by, delivery_address) # "Ok"
      THEN rq_create_request_precheck(hospital_id, quantity_ml, urgency, required_by, delivery_address)
    ELSE rq_request_validate(rq_new_request(hospital_id, blood_type, quantity_ml, urgency, required_by, delivery_address), now)

rq_create_request(signer, hospital_id, blood_type, quantity_ml, urgency, required_by, delivery_address) ==
    /\ signer = hospital_id
    /\ rq_counter < MaxRq
    /\ LET pre == rq_create_request_precheck(hospital_id, quantity_ml, urgency, required_by, delivery_address)
           request == rq_new_request(hospital_id, blood_type, quantity_ml, urgency, required_by, delivery_address)
           res == rq_create_request_result(hospital_id, blood_type, quantity_ml, urgency, required_by, delivery_address)
       IN IF pre # "Ok"
            THEN UNCHANGED <<rq_counter, rq_requests, rq_hospital_index, rq_blood_type_index,
                             rq_status_index, rq_urgency_index, last>>
          ELSE IF res # "Ok"
            THEN /\ rq_counter' = rq_counter + 1
                 /\ last' = Call("create_request", res)
                 /\ UNCHANGED <<rq_requests, rq_hospital_index, rq_blood_type_index,
                                rq_status_index, rq_urgency_index>>
          ELSE /\ rq_counter' = rq_counter + 1
               /\ rq_requests' = [i \in DOMAIN rq_requests \cup {request.id} |->
                                     IF i = request.id THEN request ELSE rq_requests[i]]
               /\ rq_hospital_index' = rq_index_push(rq_hospital_index, hospital_id, request.id)
               /\ rq_blood_type_index' = rq_index_push(rq_blood_type_index, blood_type, request.id)
               /\ rq_status_index' = rq_index_push(rq_status_index, "Pending", request.id)
               /\ rq_urgency_index' = rq_index_push(rq_urgency_index, urgency, request.id)
               /\ last' = Call("create_request", "Ok")
    /\ UNCHANGED <<hc_vars, inv_vars, q_vars, now, rq_admin, rq_authorized>>

approve_request_result(request_id) ==
    IF ~rq_is_initialized THEN "NotInitialized"
    ELSE IF request_id \notin DOMAIN rq_requests THEN "NotFound"
    ELSE IF ~can_transition_to(rq_requests[request_id].status, "Approved")
      THEN "InvalidStatusTransition"
    ELSE validate_not_expired(rq_requests[request_id].required_by)

approve_request(signer, request_id) ==
    /\ rq_is_initialized => signer = rq_admin[1]
    /\ IF approve_request_result(request_id) # "Ok"
         THEN UNCHANGED <<rq_requests, rq_status_index, last>>
         ELSE /\ rq_requests' = [rq_requests EXCEPT ![request_id].status = "Approved"]
              /\ rq_status_index' = update_status_index(rq_status_index, request_id,
                                        rq_requests[request_id].status, "Approved")
              /\ last' = Call("approve_request", "Ok")
    /\ UNCHANGED <<hc_vars, inv_vars, q_vars, now, rq_admin, rq_authorized, rq_counter,
                   rq_hospital_index, rq_blood_type_index, rq_urgency_index>>

(* storage::get_admin panics when the admin is not set *)
rq_update_request_status_result(request_id, new_status) ==
    IF rq_admin = None THEN "Panic"
    ELSE IF request_id \notin DOMAIN rq_requests THEN "RequestNotFound"
    ELSE IF ~can_transition_to(rq_requests[request_id].status, new_status)
      THEN "InvalidStatusTransition"
    ELSE "Ok"

(* get_admin panics before initialisation: the invocation then changes      *)
(* nothing.  The request is stored; no index is touched.                    *)
rq_update_request_status(signer, request_id, new_status) ==
    /\ rq_is_initialized
    /\ signer = rq_admin[1]
    /\ IF rq_update_request_status_result(request_id, new_status) # "Ok"
         THEN UNCHANGED <<rq_requests, last>>
         ELSE /\ rq_requests' = [rq_requests EXCEPT
                    ![request_id].status = new_status,
                    ![request_id].fulfilled_at =
                        IF new_status = "Fulfilled" THEN Some(now) ELSE @]
              /\ last' = Call("update_request_status", "Ok")
    /\ UNCHANGED <<hc_vars, inv_vars, q_vars, now, rq_admin, rq_authorized, rq_counter,
                   rq_hospital_index, rq_blood_type_index, rq_status_index, rq_urgency_index>>

assign_blood_units_result(request_id) ==
    IF rq_admin = None THEN "Panic"
    ELSE IF request_id \notin DOMAIN rq_requests THEN "RequestNotFound"
    ELSE "Ok"

assign_blood_units(signer, request_id, unit_ids) ==
    /\ rq_is_initialized
    /\ signer = rq_admin[1]
    /\ IF assign_blood_units_result(request_id) # "Ok"
         THEN UNCHANGED <<rq_requests, last>>
         ELSE /\ rq_requests' = [rq_requests EXCEPT ![request_id].assigned_units = unit_ids]
              /\ last' = Call("assign_blood_units", "Ok")
    /\ UNCHANGED <<hc_vars, inv_vars, q_vars, now, rq_admin, rq_authorized, rq_counter,
                   rq_hospital_index, rq_blood_type_index, rq_status_index, rq_urgency_index>>

rq_cancel_request_result(request_id, caller) ==
    IF ~rq_is_initialized THEN "NotInitialized"
    ELSE IF request_id \notin DOMAIN rq_requests THEN "NotFound"
    ELSE IF caller # rq_requests[request_id].hospital_id /\ caller # rq_admin[1]
      THEN "Unauthorized"
    ELSE IF ~can_cancel(rq_requests[request_id].status) THEN "CannotCancelRequest"
    ELSE "Ok"

rq_cancel_request(signer, request_id, caller) ==
    /\ signer = caller
    /\ IF rq_cancel_request_result(request_id, caller) # "Ok"
         THEN UNCHANGED <<rq_requests, rq_status_index, last>>
         ELSE /\ rq_requests' = [rq_requests EXCEPT ![request_id].status = "Cancelled"]
              /\ rq_status_index' = update_status_index(rq_status_index, request_id,
                                        rq_requests[request_id].status, "Cancelled")
              /\ last' = Call("cancel_request", "Ok")
    /\ UNCHANGED <<hc_vars, inv_vars, q_vars, now, rq_admin, rq_authorized, rq_counter,
                   rq_hospital_index, rq_blood_type_index, rq_urgency_index>>

load_requests_from_ids(ids) ==
    LET present == SelectSeq(ids, LAMBDA id : id \in DOMAIN rq_requests)
    IN [i \in 1..Len(present) |-> rq_requests[present[i]]]

(* One step of the inner loop: compare positions j and j+1 (0-based) and    *)
(* swap when the earlier one has the smaller weight.                        *)
sort_compare_swap_on_equal(reqs, j) ==
    LET curr == reqs[j + 1]
        next == reqs[j + 2]
    IN IF priority_weight(curr.urgency) <= priority_weight(next.urgency)
         THEN [reqs EXCEPT ![j + 1] = next, ![j + 2] = curr]
         ELSE reqs

sort_compare_swap(reqs, j) ==
    LET curr == reqs[j + 1]
        next == reqs[j + 2]
    IN IF priority_weight(curr.urgency) < priority_weight(next.urgency)
         THEN [reqs EXCEPT ![j + 1] = next, ![j + 2] = curr]
         ELSE reqs

RECURSIVE sort_inner_loop(_, _, _)
sort_inner_loop(reqs, j, bound) ==
    IF j >= bound THEN reqs
    ELSE sort_inner_loop(sort_compare_swap(reqs, j), j + 1, bound)

RECURSIVE sort_outer_loop(_, _)
sort_outer_loop(reqs, i) ==
    IF i >= Len(reqs) THEN reqs
    ELSE sort_outer_loop(sort_inner_loop(reqs, 0, Len(reqs) - i - 1), i + 1)

sort_requests_by_urgency(reqs) ==
    IF Len(reqs) <= 1 THEN reqs ELSE sort_outer_loop(reqs, 0)

(* offset_val < total when the sum is computed, so it cannot overflow.      *)
apply_pagination_capped_at_default(reqs, limit, offset) ==
    LET offset_val == IF offset = None THEN 0 ELSE offset[1]
        limit_given == IF limit = None THEN DEFAULT_QUERY_LIMIT ELSE limit[1]
        limit_val == IF limit_given < DEFAULT_QUERY_LIMIT THEN limit_given
                     ELSE DEFAULT_QUERY_LIMIT
        total == Len(reqs)
        end == IF offset_val + limit_val < total THEN offset_val + limit_val ELSE total
    IN IF offset_val >= total THEN <<>>
       ELSE [i \in 1..(end - offset_val) |-> reqs[offset_val + i]]

apply_pagination(reqs, limit, offset) ==
    LET offset_val == IF offset = None THEN 0 ELSE offset[1]
        limit_given == IF limit = None THEN DEFAULT_QUERY_LIMIT ELSE limit[1]
        limit_val == IF limit_given < MAX_QUERY_LIMIT THEN limit_given ELSE MAX_QUERY_LIMIT
        total == Len(reqs)
        end == IF offset_val + limit_val < total THEN offset_val + limit_val ELSE total
    IN IF offset_val >= total THEN <<>>
       ELSE [i \in 1..(end - offset_val) |-> reqs[offset_val + i]]

query_pending_requests(limit, offset) ==
    apply_pagination(
        sort_requests_by_urgency(load_requests_from_ids(rq_get_requests_by_status("Pending"))),
        limit, offset)

(* The ids query_requests_by_date_range collects: one status index, or the *)
(* seven status indexes one after the other.                                *)
date_range_request_ids(status_filter) ==
    IF status_filter # None THEN rq_get_requests_by_status(status_filter[1])
    ELSE rq_get_requests_by_status("Pending") \o rq_get_requests_by_status("Approved")
         \o rq_get_requests_by_status("Fulfilled") \o rq_get_requests_by_status("InDelivery")
         \o rq_get_requests_by_status("Completed") \o rq_get_requests_by_status("Cancelled")
         \o rq_get_requests_by_status("Expired")

(* The loaded requests after the created_at filter, before pagination *)
date_range_requests(start_time, end_time, status_filter) ==
    SelectSeq(load_requests_from_ids(date_range_request_ids(status_filter)),
              LAMBDA r : r.created_at >= start_time /\ r.created_at <= end_time)

query_requests_by_date_range(start_time, end_time, status_filter, limit, offset) ==
    apply_pagination(date_range_requests(start_time, end_time, status_filter), limit, offset)

NextRq ==
    \/ Tick
    \/ \E s \in Signers, a \in AdminCandidates : rq_initialize(s, a)
    \/ \E s \in Signers, h \in {"hospA"} : authorize_hospital(s, h)
    \/ \E s \in Signers, h \in {"hospA"} : revoke_hospital(s, h)
    \/ \E s \in Signers, h \in {"admin", "hospA"}, bt \in BloodType, u \in RqUrgencyLevel,
          rb \in {now, now + SECONDS_PER_DAY} :
            rq_create_request(s, h, bt, RQ_MIN_REQUEST_QUANTITY_ML, u, rb, WardA)
    \/ \E s \in Signers, r \in RqIds : approve_request(s, r)
    \/ \E s \in Signers, r \in RqIds, st \in RqRequestStatus : rq_update_request_status(s, r, st)
    \/ \E s \in Signers, r \in RqIds, c \in {"admin", "hospA"} : rq_cancel_request(s, r, c)

SpecRq == Init /\ [][NextRq]_vars

(* Initialisation of both lifebank contracts and hospital authorisation.   *)
NextAuth ==
    \/ Tick
    \/ \E s \in Signers, a \in {"admin", "bank"} : inv_initialize(s, a)
    \/ \E s \in Signers, a \in {"admin", "bank"} : rq_initialize(s, a)
    \/ \E s \in Signers, h \in HospitalCandidates : authorize_hospital(s, h)
    \/ \E s \in Signers, h \in HospitalCandidates : revoke_hospital(s, h)
    \/ \E s \in Signers, h \in Signers, bt \in BloodType, rb \in {now, now + SECONDS_PER_DAY} :
            rq_create_request(s, h, bt, RQ_MIN_REQUEST_QUANTITY_ML, "Urgent", rb, WardA)

SpecAuth == Init /\ [][NextAuth]_vars

(* Creation in both lifebank contracts, with arguments that pass and        *)
(* arguments that fail each validation step.                                *)
NextCounters ==
    \/ Tick
    \/ inv_initialize("admin", "admin")
    \/ rq_initialize("admin", "admin")
    \/ \E b \in {"admin", "bank"},
          q \in {INV_MIN_QUANTITY_ML - 1, INV_MIN_QUANTITY_ML, INV_MAX_QUANTITY_ML + 1},
          e \in {now, now + SECONDS_PER_DAY, now + (MAX_EXPIRATION_DAYS + 1) * SECONDS_PER_DAY} :
            inv_register_blood(b, b, "OPositive", q, e, None)
    \/ \E h \in {"admin", "hospA"},
          q \in {RQ_MIN_REQUEST_QUANTITY_ML - 1, RQ_MIN_REQUEST_QUANTITY_ML,
                 RQ_MAX_REQUEST_QUANTITY_ML + 1},
          u \in {"Critical", "Urgent"},
          rb \in {now, now + 3600, now + SECONDS_PER_DAY,
                  now + (MAX_DAYS_IN_FUTURE + 1) * SECONDS_PER_DAY},
          da \in {<<>>, WardA} :
            rq_create_request(h, h, "OPositive", q, u, rb, da)

SpecCounters == Init /\ [][NextCounters]_vars

(* The life cycle of a request: creation by the admin or an authorised      *)
(* hospital, approval, status updates and cancellation, with time passing.  *)
NextLifecycle ==
    \/ Tick
    \/ rq_initialize("admin", "admin")
    \/ authorize_hospital("admin", "hospA")
    \/ rq_create_request("hospA", "hospA", "OPositive", RQ_MIN_REQUEST_QUANTITY_ML, "Urgent",
                         now + SECONDS_PER_DAY, WardA)
    \/ \E id \in RqIds : approve_request("admin", id)
    \/ \E id \in RqIds, st \in {"Fulfilled", "InDelivery", "Expired"} : rq_update_request_status("admin", id, st)
    \/ \E c \in {"admin", "hospA", "hospB"}, id \in RqIds : rq_cancel_request(c, id, c)

SpecLifecycle == Init /\ [][NextLifecycle]_vars

(* The mutating operations of both lifebank contracts, before and after     *)
(* initialize.                                                              *)
NextGuards ==
    \/ inv_initialize("admin", "admin")
    \/ rq_initialize("admin", "admin")
    \/ inv_register_blood("admin", "admin", "OPositive", INV_MIN_QUANTITY_ML,
                          now + SECONDS_PER_DAY, None)
    \/ \E u \in UnitIds : update_status("admin", u, "Reserved", "admin", None)
    \/ \E ids \in PairLists : batch_update_status("admin", ids, "InTransit", "admin", None)
    \/ authorize_hospital("admin", "hospA")
    \/ \E h \in {"admin", "hospA"} :
            rq_create_request(h, h, "OPositive", RQ_MIN_REQUEST_QUANTITY_ML, "Urgent",
                              now + SECONDS_PER_DAY, WardA)
    \/ \E id \in RqIds : approve_request("admin", id)
    \/ \E id \in RqIds : rq_update_request_status("admin", id, "Fulfilled")
    \/ \E id \in RqIds : assign_blood_units("admin", id, <<1>>)
    \/ \E id \in RqIds : rq_cancel_request("admin", id, "admin")

SpecGuards == Init /\ [][NextGuards]_vars

(* Every operation of HealthChainContract and InventoryContract that writes *)
(* a unit or a history, at one ledger time.                                 *)
NextHistory ==
    \/ initialize("admin", "admin")
    \/ register_blood_bank("admin", "bank")
    \/ register_hospital("admin", "hospA")
    \/ register_blood("bank", "bank", "OPositive", MIN_QUANTITY_ML, now + SECONDS_PER_DAY)
    \/ \E u \in UnitIds : allocate_blood("bank", "bank", u, "hospA")
    \/ \E ids \in PairLists : batch_allocate_blood("bank", "bank", ids, "hospA")
    \/ \E u \in UnitIds : initiate_transfer("bank", "bank", u)
    \/ \E u \in UnitIds : confirm_delivery("hospA", "hospA", u)
    \/ \E u \in UnitIds : withdraw_blood("bank", "bank", u)
    \/ inv_initialize("admin", "admin")
    \/ inv_register_blood("admin", "admin", "OPositive", INV_MIN_QUANTITY_ML,
                          now + SECONDS_PER_DAY, None)
    \/ \E u \in UnitIds : update_status("admin", u, "Reserved", "admin", None)
    \/ \E ids \in PairLists : batch_update_status("admin", ids, "InTransit", "admin", None)

SpecHistory == Init /\ [][NextHistory]_vars

(* Units and requests of HealthChainContract at one ledger time, with the   *)
(* contract's own address registered as a bank so that fulfill_request can  *)
(* succeed.                                                                 *)
NextFields ==
    \/ initialize("admin", "admin")
    \/ \E b \in BankCandidates : register_blood_bank("admin", b)
    \/ register_hospital("admin", "hospA")
    \/ register_blood("bank", "bank", "OPositive", MIN_QUANTITY_ML, now + SECONDS_PER_DAY)
    \/ \E u \in UnitIds : allocate_blood("bank", "bank", u, "hospA")
    \/ \E ids \in PairLists : batch_allocate_blood("bank", "bank", ids, "hospA")
    \/ \E u \in UnitIds : cancel_allocation("bank", "bank", u)
    \/ \E u \in UnitIds : initiate_transfer("bank", "bank", u)
    \/ \E u \in UnitIds : confirm_delivery("hospA", "hospA", u)
    \/ create_request("hospA", "hospA", "OPositive", MIN_REQUEST_ML, "Urgent",
                      now + SECONDS_PER_DAY, WardA)
    \/ \E r \in RequestIds : update_request_status("admin", r, "Approved")
    \/ \E r \in RequestIds : cancel_request("hospA", r)
    \/ \E r \in RequestIds, ids \in PairLists : fulfill_request("bank", r, ids)

SpecFields == Init /\ [][NextFields]_vars

(* Two registered banks compete for the units of one of them, for either   *)
(* hospital, while the ledger clock advances.                               *)
CompetingBanks == {"bank", "admin"}

NextExclusive ==
    \/ Tick
    \/ initialize("admin", "admin")
    \/ \E b \in CompetingBanks : register_blood_bank("admin", b)
    \/ \E h \in HospitalCandidates : register_hospital("admin", h)
    \/ register_blood("bank", "bank", "OPositive", MIN_QUANTITY_ML, now + SECONDS_PER_DAY)
    \/ \E b \in CompetingBanks, u \in UnitIds : allocate_blood(b, b, u, "hospA")
    \/ \E ids \in PairLists : batch_allocate_blood("admin", "admin", ids, "hospB")
    \/ \E u \in UnitIds : cancel_allocation("bank", "bank", u)
    \/ \E u \in UnitIds : initiate_transfer("bank", "bank", u)

SpecExclusive == Init /\ [][NextExclusive]_vars

(* One hospital creates requests, which then end in every way a request    *)
(* can end, while the ledger clock advances.                                *)
NextKeys ==
    \/ Tick
    \/ initialize("admin", "admin")
    \/ \E b \in BankCandidates : register_blood_bank("admin", b)
    \/ register_hospital("admin", "hospA")
    \/ \E rb \in {now + SECONDS_PER_DAY, now + 2 * SECONDS_PER_DAY} :
            create_request("hospA", "hospA", "OPositive", MIN_REQUEST_ML, "Urgent", rb, WardA)
    \/ \E r \in RequestIds : cancel_request("hospA", r)
    \/ \E r \in RequestIds : fulfill_request("bank", r, <<>>)
    \/ \E r \in RequestIds, st \in RequestStatus : update_request_status("admin", r, st)

SpecKeys == Init /\ [][NextKeys]_vars

(* The admin creates requests of every urgency and moves them through the  *)
(* statuses, all at one ledger time.                                       *)
NextQuery ==
    \/ rq_initialize("admin", "admin")
    \/ \E u \in RqUrgencyLevel :
            rq_create_request("admin", "admin", "OPositive", RQ_MIN_REQUEST_QUANTITY_ML, u,
                              now + SECONDS_PER_DAY, WardA)
    \/ \E r \in RqIds : approve_request("admin", r)
    \/ \E r \in RqIds, st \in RqRequestStatus : rq_update_request_status("admin", r, st)
    \/ \E r \in RqIds : rq_cancel_request("admin", r, "admin")

SpecQuery == Init /\ [][NextQuery]_vars

(* Pagination as a function of its arguments.  The lists stand for filtered *)
(* request lists of every length up to MaxListLen, which exceeds            *)
(* MAX_QUERY_LIMIT; limits and offsets lie around 0, the default, the cap,  *)
(* the list lengths and a value far beyond them (2^31 - 1, in the range of  *)
(* the u32 arguments).                                                      *)
MaxListLen == 201
PageLists == {[i \in 1..n |-> i] : n \in 0..MaxListLen}
PageLimits == {None} \cup {Some(l) : l \in {0, 1, 49, 50, 51, 199, 200, 201, 2147483647}}
PageOffsets == {None} \cup {Some(o) : o \in {0, 1, 2, 50, 51, 200, 201, 2147483647}}

InitPage ==
    /\ InitContracts
    /\ q_list \in PageLists
    /\ q_limit \in PageLimits
    /\ q_offset \in PageOffsets
    /\ q_result = None

paginate ==
    /\ q_result = None
    /\ q_result' = Some(apply_pagination(q_list, q_limit, q_offset))
    /\ UNCHANGED <<hc_vars, inv_vars, rq_vars, now, last, q_list, q_limit, q_offset>>

NextPage == paginate

SpecPage == InitPage /\ [][NextPage]_vars

----------------------------------------------------------------------------
(* Properties *)

Terminal == {"Delivered", "Expired", "Discarded"}

UnitEdges ==
    {<<"Available", "Reserved">>, <<"Available", "Expired">>, <<"Available", "Discarded">>,
     <<"Reserved", "Available">>, <<"Reserved", "InTransit">>, <<"Reserved", "Expired">>,
     <<"Reserved", "Discarded">>,
     <<"InTransit", "Delivered">>, <<"InTransit", "Expired">>, <<"InTransit", "Discarded">>}

RequestEdges ==
    {<<"Pending", "Approved">>, <<"Pending", "Rejected">>, <<"Pending", "Cancelled">>,
     <<"Approved", "InProgress">>, <<"Approved", "Fulfilled">>, <<"Approved", "Cancelled">>,
     <<"InProgress", "Fulfilled">>, <<"InProgress", "Cancelled">>}

(* C1: once a unit of HealthChainContract is Delivered, Expired or          *)
(* Discarded, no step changes its status.                                   *)
C1_TerminalUnitStatusFrozen ==
    [][\A u \in DOMAIN units :
          units[u].status \in Terminal => units'[u].status = units[u].status]_vars

(* C2: every change of a unit's status between two consecutive states is an *)
(* edge of the unit transition table.                                       *)
C2_UnitStatusFollowsTable ==
    [][\A u \in DOMAIN units :
          units'[u].status # units[u].status
            => <<units[u].status, units'[u].status>> \in UnitEdges]_vars

(* C3: every change of a request's status is an edge of the request table,  *)
(* and a Fulfilled, Rejected or Cancelled request never changes status (no  *)
(* cancel_request on it takes effect).                                      *)
C3_RequestStatusFollowsTable ==
    [][\A r \in DOMAIN requests :
          /\ requests'[r].status # requests[r].status
               => <<requests[r].status, requests'[r].status>> \in RequestEdges
          /\ requests[r].status \in {"Fulfilled", "Rejected", "Cancelled"}
               => requests'[r].status = requests[r].status]_vars

(* C4: a batch_allocate_blood step that returns an error leaves status,     *)
(* recipient_hospital and allocation_timestamp of every named unit as they  *)
(* were; a step that returns Ok leaves every named unit Reserved for the    *)
(* given hospital.  (A step that changes neither units nor histories has    *)
(* nothing to compare.)                                                     *)
C4_BatchAllocateAllOrNothing ==
    [][(units' # units \/ history' # history)
         => \A ids \in UnitIdLists, h \in HospitalCandidates :
              batch_allocate_blood("bank", "bank", ids, h)
                => LET r == batch_allocate_blood_result("bank", ids, h) IN
                   /\ r.res # "Ok"
                        => \A i \in DOMAIN ids :
                              ids[i] \in DOMAIN units
                                => /\ units'[ids[i]].status = units[ids[i]].status
                                   /\ units'[ids[i]].recipient_hospital
                                        = units[ids[i]].recipient_hospital
                                   /\ units'[ids[i]].allocation_timestamp
                                        = units[ids[i]].allocation_timestamp
                   /\ r.res = "Ok"
                        => \A i \in DOMAIN ids :
                              /\ ids[i] \in DOMAIN units'
                              /\ units'[ids[i]].status = "Reserved"
                              /\ units'[ids[i]].recipient_hospital = Some(h)]_vars

(* A batch has failed on a later element after an earlier element was       *)
(* processed: the earlier unit is still Available and unallocated.          *)
C4_Witness ==
    /\ last.op = "batch_allocate_blood"
    /\ last.res \in {"UnitNotFound", "InvalidStatus", "UnitExpired"}
    /\ \E u \in DOMAIN units :
          /\ units[u].status = "Available"
          /\ units[u].recipient_hospital = None
          /\ history[u] # <<>>
          /\ history[u][Len(history[u])].new_status = "Reserved"

C10_FulfillSucceeds ==
    \A r \in DOMAIN requests, ids \in ShortLists :
        (/\ requests[r].status \in {"Approved", "InProgress"}
         /\ ids # <<>>
         /\ \A i \in DOMAIN ids :
               /\ ids[i] \in DOMAIN units
               /\ is_blood_bank(units[ids[i]].bank_id)
               /\ units[ids[i]].status = "Reserved"
               /\ units[ids[i]].recipient_hospital = Some(requests[r].hospital_id))
          => LET f == fulfill_request_result(r, ids) IN
             /\ f.res = "Ok"
             /\ \A i \in DOMAIN ids :
                   /\ f.units[ids[i]].status = "Delivered"
                   /\ f.units[ids[i]].delivery_timestamp = Some(now)

(* C11: fulfill_request succeeds only if the request is Approved or         *)
(* InProgress and every referenced unit exists, is Reserved or InTransit    *)
(* for the request's hospital and is not expired.                           *)
C11_FulfillOnlyReservedUnexpired ==
    \A r \in DOMAIN requests, ids \in ShortLists :
        fulfill_request_result(r, ids).res = "Ok"
          => /\ requests[r].status \in {"Approved", "InProgress"}
             /\ \A i \in DOMAIN ids :
                   /\ ids[i] \in DOMAIN units
                   /\ units[ids[i]].status \in {"Reserved", "InTransit"}
                   /\ units[ids[i]].recipient_hospital = Some(requests[r].hospital_id)
                   /\ now < units[ids[i]].expiration_date

ActiveRequest == {"Pending", "Approved", "InProgress"}

(* The tuple create_request compares, taken from a stored request. *)
KeyOfRequest(req) ==
    RequestKey(req.hospital_id, req.blood_type, req.quantity_ml, req.urgency,
               req.required_by, req.delivery_address)

ResultOfRepeating(req) ==
    create_request_result(req.hospital_id, req.blood_type, req.quantity_ml,
                          req.urgency, req.required_by, req.delivery_address)

OneActivePerTuple ==
    \A r1, r2 \in DOMAIN requests :
        (/\ r1 # r2
         /\ requests[r1].status \in ActiveRequest
         /\ requests[r2].status \in ActiveRequest)
          => KeyOfRequest(requests[r1]) # KeyOfRequest(requests[r2])

(* Every step that stores a request or consumes a request id stores exactly *)
(* one request, under the consumed id, whose tuple no stored request has.   *)
NewRequestHasNewTuple ==
    (DOMAIN requests' # DOMAIN requests \/ next_request_id' # next_request_id)
      => /\ next_request_id' = next_request_id + 1
         /\ DOMAIN requests' = DOMAIN requests \cup {next_request_id}
         /\ \A r \in DOMAIN requests :
               KeyOfRequest(requests[r]) # KeyOfRequest(requests'[next_request_id])

C13_RequestStatusChangeAuthorized ==
    [][\A s \in Signers, r \in DOMAIN requests :
          /\ \A st \in RequestStatus :
                (/\ update_request_status(s, r, st)
                 /\ requests'[r].status # requests[r].status)
                  => admin = Some(s)
          /\ (/\ cancel_request(s, r)
              /\ requests'[r].status # requests[r].status)
               => (s = requests[r].hospital_id \/ is_blood_bank(s))
          /\ \A ids \in ShortLists :
                (/\ fulfill_request(s, r, ids)
                 /\ requests'[r].status # requests[r].status)
                  => is_blood_bank(s)]_vars

(* C14: once an admin is stored, no step changes it (every later initialize *)
(* fails).                                                                  *)
C14_AdminSetOnce ==
    [][admin # None => admin' = admin]_vars
(* C15: in InventoryContract and in RequestContract, once initialize has     *)
(* succeeded, a further initialize by any address fails with               *)
(* AlreadyInitialized and the stored admin stays what it was.              *)
C15_SecondInitializeFails ==
    /\ [](inv_admin # None => inv_initialize_result = "AlreadyInitialized")
    /\ [](rq_admin # None => rq_initialize_result = "AlreadyInitialized")
    /\ [][/\ inv_admin # None => inv_admin' = inv_admin
          /\ rq_admin # None => rq_admin' = rq_admin]_vars

C15_Witness ==
    /\ inv_admin = Some("bank") /\ inv_initialize_result = "AlreadyInitialized"
    /\ rq_admin = Some("admin") /\ rq_initialize_result = "AlreadyInitialized"

(* C16: RequestContract create_request succeeds only for the admin or an    *)
(* address in the authorised-hospital set.  An address that is neither is  *)
(* reported unauthorised by is_hospital_authorized and its create_request  *)
(* fails with NotAuthorizedHospital and creates nothing; this is so right  *)
(* after revoke_hospital(h), h not the admin, and lasts until              *)
(* authorize_hospital(h).  The admin is authorised in every state after    *)
(* initialisation.                                                         *)
C16_CreateResult(h, rb) ==
    rq_create_request_result(h, "OPositive", RQ_MIN_REQUEST_QUANTITY_ML, "Urgent", rb, WardA)

C16_NotAuthorized(h) == rq_admin # None /\ h # rq_admin[1] /\ h \notin rq_authorized

C16_OnlyAuthorizedHospitalCreates ==
    /\ [](\A h \in Signers, rb \in {now, now + SECONDS_PER_DAY} :
            /\ C16_CreateResult(h, rb) = "Ok"
                 => rq_admin # None /\ (h = rq_admin[1] \/ h \in rq_authorized)
            /\ C16_NotAuthorized(h)
                 => ~is_hospital_authorized(h)
                    /\ C16_CreateResult(h, rb) = "NotAuthorizedHospital")
    /\ [](rq_admin # None => is_hospital_authorized(rq_admin[1]))
    /\ [][\A h \in Signers :
            /\ (rq_admin # None /\ h # rq_admin[1] /\ \E s \in Signers : revoke_hospital(s, h))
                 => C16_NotAuthorized(h)'
            /\ (C16_NotAuthorized(h) /\ ~C16_NotAuthorized(h)')
                 => \E s \in Signers : authorize_hospital(s, h)
            /\ C16_NotAuthorized(h)
                 => \A id \in DOMAIN rq_requests' \ DOMAIN rq_requests :
                        rq_requests'[id].hospital_id # h]_vars

C16_Witness ==
    /\ rq_admin = Some("admin")
    /\ "hospA" \notin rq_authorized
    /\ rq_counter < MaxRq
    /\ \E id \in DOMAIN rq_requests : rq_requests[id].hospital_id = "hospA"
    /\ C16_CreateResult("hospA", now + SECONDS_PER_DAY) = "NotAuthorizedHospital"

RqIdsWithStatus(status) == {id \in DOMAIN rq_requests : rq_requests[id].status = status}

NoDuplicates(seq) == \A i, j \in 1..Len(seq) : seq[i] = seq[j] => i = j

Range(seq) == {seq[i] : i \in 1..Len(seq)}

(* C17: for every status s, get_requests_by_status(s) lists exactly the ids *)
(* of the stored requests whose status is s, each id once.                 *)
C17_StatusIndexExact ==
    \A status \in RqRequestStatus :
        /\ Range(get_requests_by_status(status)) = RqIdsWithStatus(status)
        /\ NoDuplicates(get_requests_by_status(status))

(* C18: query_pending_requests, taken with a limit that covers the whole   *)
(* list, returns exactly the requests whose current status is Pending.     *)
C18_PendingQueryExact ==
    LET result == query_pending_requests(Some(MAX_QUERY_LIMIT), None)
    IN /\ {result[i].id : i \in 1..Len(result)} = RqIdsWithStatus("Pending")
       /\ \A i \in 1..Len(result) : result[i].status = "Pending"
       /\ Len(result) = Cardinality(RqIdsWithStatus("Pending"))

(* C19: query_pending_requests returns the requests of the Pending index,  *)
(* which is in creation (ascending id) order, with Critical before Urgent  *)
(* before Normal and equal urgencies in ascending id order; a page is the  *)
(* slice of that sorted list that starts at the offset.                     *)
C19_Sorted(result) ==
    \A i, j \in 1..Len(result) :
        i < j => \/ priority_weight(result[i].urgency) > priority_weight(result[j].urgency)
                 \/ /\ result[i].urgency = result[j].urgency
                    /\ result[i].id < result[j].id

C19_PageEnd(total, l, o) == IF o + l < total THEN o + l ELSE total

C20_Min(a, b) == IF a < b THEN a ELSE b

C20_PaginationSlice ==
    q_result # None =>
        LET L == q_list
            o == IF q_offset = None THEN 0 ELSE q_offset[1]
            l == IF q_limit = None THEN 50 ELSE q_limit[1]
            page == q_result[1]
        IN /\ page \in Seq(1..MaxListLen)
           /\ o < Len(L) => Len(page) = C20_Min(C20_Min(l, 200), Len(L) - o)
           /\ \A i \in 1..Len(page) : page[i] = L[o + i]
           /\ (o >= Len(L) \/ l = 0) => page = <<>>

C20_Witness ==
    /\ q_result # None
    /\ Len(q_list) = 201
    /\ q_limit = Some(201)
    /\ q_offset = Some(1)
    /\ Len(q_result[1]) = 200
    /\ q_result[1][1] = 2

(* C21: query_by_blood_type(t, min_q, max) returns exactly the units of     *)
(* type t that are Available, hold at least min_q and expire after the     *)
(* ledger time, by ascending expiration_date and, among equal dates, by    *)
(* ascending id; all of them when max = 0, the first max when max > 0.     *)
C21_Matching(t, min_q) ==
    {id \in DOMAIN units : /\ units[id].blood_type = t
                           /\ units[id].status = "Available"
                           /\ units[id].quantity >= min_q
                           /\ units[id].expiration_date > now}

C21_Fifo(result) ==
    \A i, j \in 1..Len(result) :
        i < j => \/ result[i].expiration_date < result[j].expiration_date
                 \/ /\ result[i].expiration_date = result[j].expiration_date
                    /\ result[i].id < result[j].id

C22_Counted(t) ==
    {id \in DOMAIN units : /\ units[id].blood_type = t
                           /\ units[id].status = "Available"
                           /\ units[id].expiration_date > now}

(* What is still missing from n after the quantities of the units in S:    *)
(* 0 exactly when their sum is at least n.                                 *)
RECURSIVE C22_Missing(_, _)
C22_Missing(S, n) ==
    IF S = {} THEN n
    ELSE LET id == CHOOSE x \in S : TRUE
         IN C22_Missing(S \ {id}, IF units[id].quantity >= n THEN 0
                                  ELSE n - units[id].quantity)

C22_CheckAvailability ==
    \A t \in StockBloodTypes,
       n \in {0, 1, MIN_QUANTITY_ML, MIN_QUANTITY_ML + 1, 2 * MIN_QUANTITY_ML,
              2 * MIN_QUANTITY_ML + 1, 2147483647} :
        /\ check_availability(t, n) = (C22_Missing(C22_Counted(t), n) = 0)
        /\ (C22_Counted(t) = {} /\ n > 0) => ~check_availability(t, n)

C22_Witness ==
    /\ C22_Counted("OPositive") = {1, 2}
    /\ units[1].quantity = MIN_QUANTITY_ML
    /\ units[2].quantity = 2147483647
    /\ check_availability("OPositive", 2147483647)
    /\ ~check_availability("ANegative", 1)

(* C23: HealthChainContract issues unit ids and request ids 1, 2, 3, ...   *)
(* in order of successful creation; the stored units are exactly those     *)
(* with ids 1..k and the stored requests exactly those with ids 1..m; a    *)
(* step that stores no new record consumes no id and no id is issued       *)
(* twice.                                                                  *)
C23_Dense ==
    /\ DOMAIN units = 1..(next_id - 1)
    /\ DOMAIN requests = 1..(next_request_id - 1)
    /\ \A id \in DOMAIN units : units[id].id = id
    /\ \A id \in DOMAIN requests : requests[id].id = id

C23_NextIdStep ==
    /\ next_id' = next_id \/ next_id' = next_id + 1
    /\ next_request_id' = next_request_id \/ next_request_id' = next_request_id + 1
    /\ next_id' # next_id <=> DOMAIN units' # DOMAIN units
    /\ next_request_id' # next_request_id <=> DOMAIN requests' # DOMAIN requests
    /\ DOMAIN units' \ DOMAIN units \subseteq {next_id}
    /\ DOMAIN requests' \ DOMAIN requests \subseteq {next_request_id}
    /\ \A id \in DOMAIN units :
          id \in DOMAIN units' /\ units'[id].registration_timestamp = units[id].registration_timestamp
    /\ \A id \in DOMAIN requests :
          id \in DOMAIN requests' /\ requests'[id].created_at = requests[id].created_at

C24_Dense ==
    /\ DOMAIN rq_requests = 1..rq_counter
    /\ DOMAIN inv_units = 1..inv_unit_counter
    /\ \A id \in DOMAIN rq_requests : rq_requests[id].id = id
    /\ \A id \in DOMAIN inv_units : inv_units[id].id = id

C24_CounterStep ==
    /\ rq_counter' # rq_counter
         => rq_counter' = rq_counter + 1 /\ DOMAIN rq_requests' = DOMAIN rq_requests \cup {rq_counter + 1}
    /\ inv_unit_counter' # inv_unit_counter
         => inv_unit_counter' = inv_unit_counter + 1
            /\ DOMAIN inv_units' = DOMAIN inv_units \cup {inv_unit_counter + 1}
    /\ rq_counter' = rq_counter => DOMAIN rq_requests' = DOMAIN rq_requests
    /\ inv_unit_counter' = inv_unit_counter => DOMAIN inv_units' = DOMAIN inv_units

C25_Cleared(unit) ==
    unit.recipient_hospital = None /\ unit.allocation_timestamp = None

C25_Released(unit) ==
    [unit EXCEPT !.status = "Available", !.recipient_hospital = None,
                 !.allocation_timestamp = None]

C25_LastRecord(h, u) == h[u][Len(h[u])]

C25_Step ==
    \A u \in DOMAIN units :
        /\ (units[u].status = "Reserved" /\ units'[u].status = "Available")
             => /\ units'[u] = C25_Released(units[u])
                /\ Len(history'[u]) = Len(history[u]) + 1
                /\ SubSeq(history'[u], 1, Len(history[u])) = history[u]
                /\ C25_LastRecord(history', u).old_status = "Reserved"
                /\ C25_LastRecord(history', u).new_status = "Available"
        /\ (units[u].status = "Available" /\ units'[u].status = "Reserved")
             => /\ C25_Released(units'[u]) = units[u]
                /\ Len(history'[u]) = Len(history[u]) + 1
                /\ SubSeq(history'[u], 1, Len(history[u])) = history[u]
                /\ C25_LastRecord(history', u).old_status = "Available"
                /\ C25_LastRecord(history', u).new_status = "Reserved"
        /\ (cancel_allocation_result("bank", u) = "Ok" /\ cancel_allocation("bank", "bank", u))
             => units'[u].status = "Available"

C25_CancelAllocationRoundTrip ==
    /\ [](\A u \in UnitIds :
            cancel_allocation_result("bank", u) = "Ok"
              <=> /\ is_blood_bank("bank")
                  /\ u \in DOMAIN units
                  /\ units[u].status = "Reserved")
    /\ [](\A u \in DOMAIN units : units[u].status = "Available" => C25_Cleared(units[u]))
    /\ [][C25_Step]_vars

C25_Witness ==
    /\ 1 \in DOMAIN units
    /\ units[1].status = "Available"
    /\ Len(history[1]) = 2
    /\ history[1][1].old_status = "Available" /\ history[1][1].new_status = "Reserved"
    /\ history[1][2].old_status = "Reserved" /\ history[1][2].new_status = "Available"
    /\ units[1] = NewUnit(1, "OPositive", units[1].quantity,
                          units[1].expiration_date, "bank", units[1].registration_timestamp)

(* C26: approve_request succeeds exactly when the request exists, is       *)
(* Pending and the ledger time is strictly before required_by; it then      *)
(* becomes Approved.  Otherwise it fails with NotFound, with                *)
(* InvalidStatusTransition when the status is not Pending (checked before   *)
(* expiry), or with RequestExpired when now >= required_by, and the request *)
(* and the status index are unchanged.                                      *)
C26_Expected(id) ==
    IF id \notin DOMAIN rq_requests THEN "NotFound"
    ELSE IF rq_requests[id].status # "Pending" THEN "InvalidStatusTransition"
    ELSE IF now >= rq_requests[id].required_by THEN "RequestExpired"
    ELSE "Ok"

C26_Result == \A id \in RqIds : rq_is_initialized => approve_request_result(id) = C26_Expected(id)

C26_Step ==
    \A id \in RqIds :
        (rq_is_initialized /\ approve_request("admin", id)) =>
            IF C26_Expected(id) = "Ok"
              THEN /\ rq_requests' = [rq_requests EXCEPT ![id].status = "Approved"]
                   /\ id \notin Range(rq_index_get(rq_status_index', "Pending"))
                   /\ id \in Range(rq_index_get(rq_status_index', "Approved"))
              ELSE UNCHANGED <<rq_requests, rq_status_index>>

C26_ApproveRequest == []C26_Result /\ [][C26_Step]_vars

C26_Witness ==
    /\ last = Call("approve_request", "Ok")
    /\ 1 \in DOMAIN rq_requests /\ rq_requests[1].status = "Approved"
    /\ 2 \in DOMAIN rq_requests /\ rq_requests[2].status = "Pending"
    /\ now >= rq_requests[2].required_by
    /\ approve_request_result(1) = "InvalidStatusTransition"
    /\ approve_request_result(2) = "RequestExpired"

(* C27: cancel_request succeeds exactly when the request exists, the       *)
(* caller is the request's own hospital or the admin, and the status is not *)
(* terminal; the request then becomes Cancelled.  A caller who is neither   *)
(* gets Unauthorized, a second cancel gets CannotCancelRequest, and every   *)
(* failure leaves the request unchanged.                                    *)
C27_Callers == {"admin", "hospA", "hospB"}

C27_Terminal == {"Completed", "Cancelled", "Expired"}

C27_MayCancel(id, caller) ==
    /\ id \in DOMAIN rq_requests
    /\ caller = rq_requests[id].hospital_id \/ caller = rq_admin[1]
    /\ rq_requests[id].status \notin C27_Terminal

C27_Result ==
    \A id \in RqIds, c \in C27_Callers :
        rq_is_initialized =>
            /\ rq_cancel_request_result(id, c) = "Ok" <=> C27_MayCancel(id, c)
            /\ (id \in DOMAIN rq_requests /\ c # rq_requests[id].hospital_id /\ c # rq_admin[1])
                    => rq_cancel_request_result(id, c) = "Unauthorized"

C27_Step ==
    \A id \in RqIds, c \in C27_Callers :
        (rq_is_initialized /\ rq_cancel_request(c, id, c)) =>
            IF C27_MayCancel(id, c)
              THEN /\ rq_requests' = [rq_requests EXCEPT ![id].status = "Cancelled"]
                   /\ \A d \in {rq_requests[id].hospital_id, rq_admin[1]} :
                          (rq_cancel_request_result(id, d))' = "CannotCancelRequest"
              ELSE UNCHANGED <<rq_requests, rq_status_index>>

C27_CancelRequest == []C27_Result /\ [][C27_Step]_vars

C27_Witness ==
    /\ last = Call("cancel_request", "Ok")
    /\ 1 \in DOMAIN rq_requests /\ rq_requests[1].status = "Cancelled"
    /\ rq_cancel_request_result(1, "hospA") = "CannotCancelRequest"
    /\ rq_cancel_request_result(1, "hospB") = "Unauthorized"
    /\ 2 \in DOMAIN rq_requests /\ rq_requests[2].status = "Fulfilled"
    /\ rq_cancel_request_result(2, "admin") = "Ok"

(* C28: update_request_status accepts Pending -> Approved, Pending ->      *)
(* Cancelled, Approved -> Fulfilled, Approved -> Cancelled and Fulfilled -> *)
(* Completed, and rejects Pending -> Fulfilled and every transition out of  *)
(* Completed or Cancelled with InvalidStatusTransition.  (The claim's       *)
(* Rejected status is not a variant of the enum can_transition_to matches   *)
(* on, so the statement is restricted to the statuses that exist.)          *)
C28_Accepted ==
    {<<"Pending", "Approved">>, <<"Pending", "Cancelled">>, <<"Approved", "Fulfilled">>,
     <<"Approved", "Cancelled">>, <<"Fulfilled", "Completed">>}

C28_Rejected ==
    {<<"Pending", "Fulfilled">>} \cup ({"Completed", "Cancelled"} \X RqRequestStatus)

C28_TransitionTable ==
    \A id \in DOMAIN rq_requests, st \in RqRequestStatus :
        /\ <<rq_requests[id].status, st>> \in C28_Accepted
                => rq_update_request_status_result(id, st) = "Ok"
        /\ <<rq_requests[id].status, st>> \in C28_Rejected
                => rq_update_request_status_result(id, st) = "InvalidStatusTransition"

(* C29: once a unit is Delivered or Expired, update_status, mark_delivered, *)
(* mark_expired and batch_update_status on it always fail (with             *)
(* InvalidStatusTransition while the unit is not past its expiration), and  *)
(* its status, history and change count never change again.                 *)
C29_TerminalUnits == {u \in DOMAIN inv_units : inv_units[u].status \in {"Delivered", "Expired"}}

C29_Fails ==
    \A u \in C29_TerminalUnits, st \in BloodStatus, a \in {"admin", "bank"} :
        /\ update_status_result(u, st, a) # "Ok"
        /\ (a = inv_admin[1] /\ ~inv_is_expired(inv_units[u], now))
                => update_status_result(u, st, a) = "InvalidStatusTransition"
        /\ \A ids \in PairLists :
                u \in Range(ids) => batch_update_status_result(ids, st, a, None).res # "Ok"

C29_Frozen ==
    \A u \in C29_TerminalUnits :
        /\ inv_units'[u] = inv_units[u]
        /\ inv_history'[u] = inv_history[u]
        /\ inv_change_count'[u] = inv_change_count[u]

C29_TerminalIsFinal == []C29_Fails /\ [][C29_Frozen]_vars

C29_Witness ==
    /\ 1 \in DOMAIN inv_units /\ inv_units[1].status = "Delivered"
    /\ ~inv_is_expired(inv_units[1], now)
    /\ inv_change_count[1] = 3
    /\ update_status_result(1, "Available", "admin") = "InvalidStatusTransition"
    /\ batch_update_status_result(<<1>>, "Expired", "admin", None).res = "InvalidStatusTransition"

(* C30: for every unit, get_status_change_count equals the length of       *)
(* get_status_history and the number of status changes of the unit (0 right *)
(* after registration); the records are in the order of the changes, each   *)
(* record's from_status is the previous record's to_status, the first       *)
(* from_status is Available and the last to_status is the current status.   *)
get_status_history(unit_id) == inv_history[unit_id]

get_status_change_count(unit_id) == inv_change_count[unit_id]

C30_Chained(unit_id) ==
    LET h == get_status_history(unit_id) IN
    /\ get_status_change_count(unit_id) = Len(h)
    /\ \A k \in 2..Len(h) : h[k].from_status = h[k - 1].to_status
    /\ \A k \in 2..Len(h) : h[k].id > h[k - 1].id /\ h[k].changed_at >= h[k - 1].changed_at
    /\ Len(h) > 0 => h[1].from_status = "Available"
    /\ IF unit_id \in DOMAIN inv_units
         THEN Len(h) > 0 => h[Len(h)].to_status = inv_units[unit_id].status
         ELSE Len(h) = 0

C30_Consistent == \A u \in UnitIds : C30_Chained(u)

C30_Step ==
    \A u \in UnitIds :
        IF u \notin DOMAIN inv_units
          THEN u \in DOMAIN inv_units' =>
                   get_status_change_count(u)' = 0 /\ inv_units'[u].status = "Available"
        ELSE IF inv_units'[u].status # inv_units[u].status
          THEN /\ get_status_change_count(u)' = get_status_change_count(u) + 1
               /\ SubSeq(get_status_history(u)', 1, Len(get_status_history(u))) = get_status_history(u)
               /\ get_status_history(u)'[Len(get_status_history(u)')].from_status = inv_units[u].status
               /\ get_status_history(u)'[Len(get_status_history(u)')].to_status = inv_units'[u].status
        ELSE UNCHANGED <<get_status_change_count(u), get_status_history(u)>>

C30_HistoryMatchesCount == []C30_Consistent /\ [][C30_Step]_vars

C30_Witness ==
    /\ 1 \in DOMAIN inv_units /\ inv_units[1].status = "InTransit"
    /\ get_status_change_count(1) = 2
    /\ Len(get_status_history(1)) = 2
    /\ get_status_history(1)[1].from_status = "Available"
    /\ get_status_history(1)[2].from_status = "Reserved"

(* C31: query_requests_by_date_range, before pagination: with no status    *)
(* filter the result holds each stored request with                         *)
(* start_time <= created_at <= end_time exactly once and no other request;  *)
(* with a status filter s it holds exactly those whose current status is s. *)
C31_Times == {t * SECONDS_PER_DAY : t \in 0..MaxDays}

C31_InRange(start_time, end_time) ==
    {id \in DOMAIN rq_requests : /\ rq_requests[id].created_at >= start_time
                                 /\ rq_requests[id].created_at <= end_time}

C31_Exactly(result, ids) ==
    /\ \A i \in 1..Len(result) : result[i].id \in ids /\ result[i] = rq_requests[result[i].id]
    /\ \A id \in ids : Cardinality({i \in 1..Len(result) : result[i].id = id}) = 1

C31_DateRangeExact ==
    \A start_time \in C31_Times, end_time \in C31_Times :
        /\ C31_Exactly(date_range_requests(start_time, end_time, None),
                       C31_InRange(start_time, end_time))
        /\ \A s \in RqRequestStatus :
               C31_Exactly(date_range_requests(start_time, end_time, Some(s)),
                           C31_InRange(start_time, end_time) \cap RqIdsWithStatus(s))

(* The unfiltered half of C31 alone *)
C31_Unfiltered ==
    \A start_time \in C31_Times, end_time \in C31_Times :
        C31_Exactly(date_range_requests(start_time, end_time, None),
                    C31_InRange(start_time, end_time))

(* C32: register_blood by a registered bank fails with InvalidQuantity     *)
(* exactly when quantity_ml < 50 or quantity_ml > 500, and otherwise fails  *)
(* with InvalidExpiration exactly when expiration_timestamp < now + 1 day   *)
(* or > now + 42 days; the four limits themselves succeed, and a failed     *)
(* call stores no unit.                                                     *)
C32_Expected(quantity_ml, expiration_timestamp) ==
    IF quantity_ml < 50 \/ quantity_ml > 500 THEN "InvalidQuantity"
    ELSE IF expiration_timestamp < now + 86400 \/ expiration_timestamp > now + 42 * 86400
      THEN "InvalidExpiration"
    ELSE "Ok"

C32_Result ==
    \A b \in banks, q \in RegisterQuantities, d \in RegisterShelfLives :
        register_blood_result(b, q, now + d) = C32_Expected(q, now + d)

C32_Step ==
    \A b \in {"bank", "hospA", "hospB"}, bt \in BloodType, q \in RegisterQuantities, d \in RegisterShelfLives :
        register_blood(b, b, bt, q, now + d) =>
            IF b \in banks /\ C32_Expected(q, now + d) = "Ok"
              THEN /\ next_id \notin DOMAIN units
                   /\ units' = MapSet(units, next_id, NewUnit(next_id, bt, q, now + d, b, now))
              ELSE units' = units

C32_RegisterBloodLimits == []C32_Result /\ [][C32_Step]_vars

C32_Witness ==
    /\ "bank" \in banks
    /\ 1 \in DOMAIN units
    /\ units[1].quantity = 500
    /\ units[1].expiration_date = units[1].registration_timestamp + 42 * 86400
    /\ register_blood_result("bank", 50, now + 86400 - 1) = "InvalidExpiration"
    /\ register_blood_result("bank", 501, now + 86400) = "InvalidQuantity"

(* C33: in every reachable state a request is Fulfilled if and only if its *)
(* fulfillment_timestamp is set.                                            *)
C33_FulfilledIffTimestamp ==
    \A r \in DOMAIN requests :
        requests[r].status = "Fulfilled" <=> requests[r].fulfillment_timestamp # None

(* The half of C33 that holds: a fulfillment timestamp is found only on a   *)
(* Fulfilled request.                                                       *)
C33_TimestampOnlyWhenFulfilled ==
    \A r \in DOMAIN requests :
        requests[r].fulfillment_timestamp # None => requests[r].status = "Fulfilled"

(* C34: every mutating operation of RequestContract and InventoryContract  *)
(* invoked before initialize returns NotInitialized, never aborts, and      *)
(* leaves storage unchanged; this includes update_request_status,           *)
(* assign_blood_units, update_status and batch_update_status.               *)
C34_RequestsGuarded ==
    rq_admin = None =>
        \A id \in RqIds :
            /\ rq_create_request_precheck("admin", RQ_MIN_REQUEST_QUANTITY_ML, "Urgent",
                                          now + SECONDS_PER_DAY, WardA) = "NotInitialized"
            /\ approve_request_result(id) = "NotInitialized"
            /\ rq_cancel_request_result(id, "admin") = "NotInitialized"
            /\ \A st \in RqRequestStatus :
                   rq_update_request_status_result(id, st) = "NotInitialized"
            /\ assign_blood_units_result(id) = "NotInitialized"

C34_InventoryGuarded ==
    inv_admin = None =>
        /\ inv_register_blood_precheck("admin", INV_MIN_QUANTITY_ML, now + SECONDS_PER_DAY)
               = "NotInitialized"
        /\ \A u \in UnitIds, st \in BloodStatus :
               update_status_result(u, st, "admin") = "NotInitialized"
        /\ \A ids \in PairLists, st \in BloodStatus :
               batch_update_status_result(ids, st, "admin", None).res = "NotInitialized"

C34_NotInitializedReturned == C34_RequestsGuarded /\ C34_InventoryGuarded

(* The part of C34 that holds: the operations that start with the presence  *)
(* check return NotInitialized, and no operation writes before initialize.  *)
C34_CheckedOperations ==
    /\ rq_admin = None =>
           \A id \in RqIds :
               /\ rq_create_request_precheck("admin", RQ_MIN_REQUEST_QUANTITY_ML, "Urgent",
                                             now + SECONDS_PER_DAY, WardA) = "NotInitialized"
               /\ approve_request_result(id) = "NotInitialized"
               /\ rq_cancel_request_result(id, "admin") = "NotInitialized"
               /\ rq_requests = <<>> /\ rq_counter = 0 /\ rq_authorized = {}
    /\ inv_admin = None =>
           /\ inv_register_blood_precheck("admin", INV_MIN_QUANTITY_ML, now + SECONDS_PER_DAY)
                  = "NotInitialized"
           /\ inv_units = <<>> /\ inv_unit_counter = 0

(* C35: across every step a unit's history only grows by appending at the  *)
(* end (records already present are never removed, reordered or modified),  *)
(* and a registered unit is never deleted, so get_blood_unit(id) succeeds   *)
(* in every state after the registration that returned id.                  *)
C35_Prefix(old, new) == Len(old) <= Len(new) /\ SubSeq(new, 1, Len(old)) = old

C35_Step ==
    /\ \A u \in UnitIds : C35_Prefix(history[u], history'[u])
    /\ \A u \in UnitIds : C35_Prefix(inv_history[u], inv_history'[u])
    /\ DOMAIN units \subseteq DOMAIN units'
    /\ DOMAIN inv_units \subseteq DOMAIN inv_units'

C35_Registered ==
    /\ \A id \in 1..(next_id - 1) : id \in DOMAIN units
    /\ \A id \in 1..inv_unit_counter : id \in DOMAIN inv_units

C35_AppendOnly == []C35_Registered /\ [][C35_Step]_vars

C35_Witness ==
    /\ 1 \in DOMAIN units /\ Len(history[1]) = 3
    /\ history[1][1].old_status = "Available" /\ history[1][3].new_status = "Discarded"
    /\ 1 \in DOMAIN inv_units /\ Len(inv_history[1]) = 2

(* C36: in every reachable state an Available unit has no                  *)
(* recipient_hospital and no allocation_timestamp, a Reserved or InTransit  *)
(* unit has both, an InTransit unit has transfer_timestamp set and a        *)
(* Delivered unit has delivery_timestamp set.                               *)
C36_UnitFields(unit) ==
    /\ unit.status = "Available" =>
            unit.recipient_hospital = None /\ unit.allocation_timestamp = None
    /\ unit.status \in {"Reserved", "InTransit"} =>
            unit.recipient_hospital # None /\ unit.allocation_timestamp # None
    /\ unit.status = "InTransit" => unit.transfer_timestamp # None
    /\ unit.status = "Delivered" => unit.delivery_timestamp # None

C36_FieldsFollowStatus == \A u \in DOMAIN units : C36_UnitFields(units[u])

C36_Witness ==
    /\ 1 \in DOMAIN units /\ units[1].status = "Delivered"
    /\ units[1].transfer_timestamp = None
    /\ units[1].delivery_timestamp # None
    /\ 1 \in DOMAIN requests /\ requests[1].status = "Fulfilled"

(* C37: a request's reserved_unit_ids is non-empty only when the request   *)
(* is Fulfilled; consequently a successful cancel_request never changes any *)
(* blood unit: a unit allocated to the requesting hospital is still         *)
(* Reserved for it after the request is cancelled.                          *)
C37_ReservedOnlyWhenFulfilled ==
    \A r \in DOMAIN requests :
        requests[r].reserved_unit_ids # <<>> => requests[r].status = "Fulfilled"

C37_Step ==
    \A r \in RequestIds :
        (cancel_request_result(r) = "Ok" /\ cancel_request("hospA", r)) =>
            /\ units' = units
            /\ history' = history
            /\ requests'[r].status = "Cancelled"

C37_CancelRequestReleasesNothing == []C37_ReservedOnlyWhenFulfilled /\ [][C37_Step]_vars

C37_Witness ==
    /\ 1 \in DOMAIN requests /\ requests[1].status = "Cancelled"
    /\ 1 \in DOMAIN units /\ units[1].status = "Reserved"
    /\ units[1].recipient_hospital = Some(requests[1].hospital_id)

(* C38, as stated: while a unit is Reserved or InTransit, every            *)
(* allocate_blood and batch_allocate_blood call of a registered bank that   *)
(* names it, for a registered hospital, fails with InvalidStatus.           *)
C38_Held == {"Reserved", "InTransit"}

C38_LaterCallsFail ==
    \A u \in DOMAIN units, b \in banks, h \in hospitals :
        units[u].status \in C38_Held =>
            LET e == IF units[u].expiration_date <= now
                       THEN "UnitExpired" ELSE "InvalidStatus" IN
            /\ allocate_blood_result(b, u, h) = e
            /\ batch_allocate_blood_result(b, <<u>>, h).res = e
            /\ \A ids \in PairLists :
                   (\E i \in DOMAIN ids : ids[i] = u) =>
                       batch_allocate_blood_result(b, ids, h).res # "Ok"

(* C38: a step that allocates an Available unit records the hospital of    *)
(* the call; while the unit stays Reserved or InTransit its                *)
(* recipient_hospital does not change; it becomes Available again only by  *)
(* cancel_allocation.                                                       *)
C38_Step ==
    \A u \in DOMAIN units :
        /\ \A b \in CompetingBanks, h \in HospitalCandidates :
               (allocate_blood_result(b, u, h) = "Ok" /\ allocate_blood(b, b, u, h)) =>
                   /\ units'[u].status = "Reserved"
                   /\ units'[u].recipient_hospital = Some(h)
        /\ (units[u].status = "Available" /\ units'[u].status = "Reserved") =>
               units'[u].recipient_hospital \in {Some(h) : h \in hospitals}
        /\ (units[u].status \in C38_Held /\ units'[u].status \in C38_Held) =>
               units'[u].recipient_hospital = units[u].recipient_hospital
        /\ (units[u].status \in C38_Held /\ units'[u].status = "Available") =>
               \E b \in banks : cancel_allocation(b, b, u)

C39_Repeat(r) ==
    create_request_result(requests[r].hospital_id, requests[r].blood_type,
                          requests[r].quantity_ml, requests[r].urgency,
                          requests[r].required_by, requests[r].delivery_address)

C39_RepeatRejected ==
    \A r \in DOMAIN requests :
        requests[r].required_by > now => C39_Repeat(r) = "DuplicateRequest"

(* C39: no step removes a key from REQUEST_KEYS or points it elsewhere.     *)
C39_Step ==
    \A k \in DOMAIN request_keys :
        k \in DOMAIN request_keys' /\ request_keys'[k] = request_keys[k]

====
